---- MODULE Spec2Model ----
(***************************************************************************)
(* A model of the proof-of-work ledger of src/src/blockchain.py:           *)
(* Transaction, Block, Blockchain and the snapshot functions.              *)
(*                                                                         *)
(* Python values.  A str is a sequence of character codes; the characters  *)
(* of a hex digest are coded by their digit value, so "0000" is            *)
(* <<0, 0, 0, 0>>.  A number that may be an int or a float keeps its type: *)
(* [t |-> "int", v |-> 1] is 1 and [t |-> "float", v |-> 1] is 1.0.        *)
(* A list is an object: `lists` is the heap of list objects and a list     *)
(* valued attribute holds the index of its object in the heap.             *)
(***************************************************************************)
EXTENDS Naturals, Sequences, FiniteSets, TLC

VARIABLES
    difficulty,                 \* Blockchain.difficulty
    unconfirmed_transactions,   \* Blockchain.unconfirmed_transactions: a list object
    chain,                      \* Blockchain.chain: the Block objects, genesis first
    lists,                      \* the heap of list objects
    ret,                        \* the last call: its name, arguments, result
    pc,                         \* "idle", or "proof_of_work" inside a search with no exit
    caller_block,               \* the Block object a caller holds: <<block>>, or <<>>
    cache_file,                 \* the file at BLOCKCHAIN_CACHE_TXT_FILE
    requests,                   \* the number of /send requests answered with 200
    clock,                      \* time.time() now, counted from the import of
                                \* the module blockchain
    frame                       \* the local variables of a mine() or proof_of_work()
                                \* call that is between two of its statements:
                                \* <<locals>>, or <<>>

vars == <<difficulty, unconfirmed_transactions, chain, lists, ret, pc, caller_block,
          cache_file, requests, clock, frame>>

----------------------------------------------------------------------------
(* Bounds of the model. *)

\* The digest alphabet: hexdigest() has 16 symbols, the model HexBase.
HexBase == 2
\* The digest length: hexdigest() of SHA-256 has 64 symbols, the model DigestLen.
DigestLen == 3
\* Blockchain(difficulty) is constructed with difficulty in 1..MaxDifficulty.
MaxDifficulty == 4
\* add_new_transaction is called while the pending list is shorter than this.
MaxPending == 4
\* Blocks are appended while the chain is shorter than this.
MaxChain == 3
\* A caller-built block starts with a nonce in 0..MaxNonce.
MaxNonce == 1

----------------------------------------------------------------------------
(* src/utilities.py *)

DEFAULT_DIFFICULTY == 3
MINIMUM_NUMBER_OF_TRANSACTIONS_PER_BLOCK == 3

----------------------------------------------------------------------------
(* Python values *)

Int(n) == [t |-> "int", v |-> n]
Float(n) == [t |-> "float", v |-> n]

\* A value whose type the code tests carries its type: a str its characters,
\* a bool its truth value.
Str(s) == [t |-> "str", v |-> s]
Bool(b) == [t |-> "bool", v |-> b]

\* A type test that lets an int pass for a float.
isinstance_numbers(x, types) ==
    x.t \in types \/ (x.t \in {"bool", "int"} /\ types \cap {"int", "float"} # {})

\* list.insert(0, x): x becomes the first entry.
list_insert_first(list, x) == <<x>> \o list

\* list.append(x): x becomes the last entry.
list_append(list, x) == Append(list, x)

\* isinstance(x, types): bool is a subclass of int.
isinstance(x, types) == x.t \in types \/ (x.t = "bool" /\ "int" \in types)

\* A file: whether os.path.exists, and the documents in it (none when
\* os.path.getsize is 0).
File(exists, documents) == [exists |-> exists, documents |-> documents]

\* "0" * n
Zeros(n) == [i \in 1..n |-> 0]

\* s.startswith(prefix)
startswith(s, prefix) ==
    /\ Len(prefix) <= Len(s)
    /\ \A i \in 1..Len(prefix) : s[i] = prefix[i]

RECURSIVE Flatten(_)
Flatten(ss) == IF ss = <<>> THEN <<>> ELSE Head(ss) \o Flatten(Tail(ss))

----------------------------------------------------------------------------
(* class Transaction *)

\* Checks that also refuse an amount below zero.
Transaction_raises_negative(sender_id, receiver_id, timestamp, amount) ==
    \/ ~isinstance(sender_id, {"str"})
    \/ ~isinstance(receiver_id, {"str"})
    \/ ~isinstance(timestamp, {"float"})
    \/ ~isinstance(amount, {"int", "float"})
    \/ amount.v < 0

\* Transaction.__init__: whether it raises TypeError.
Transaction_raises(sender_id, receiver_id, timestamp, amount) ==
    \/ ~isinstance(sender_id, {"str"})
    \/ ~isinstance(receiver_id, {"str"})
    \/ ~isinstance(timestamp, {"float"})
    \/ ~isinstance(amount, {"int", "float"})

\* Transaction.data: the dictionary of the four fields.
Transaction_data(sender_id, receiver_id, timestamp, amount) ==
    [sender_id |-> sender_id, receiver_id |-> receiver_id,
     timestamp |-> timestamp, amount |-> amount]

----------------------------------------------------------------------------
(* json.dumps(..., sort_keys=True) and sha256(...).hexdigest() *)

\* The text of a number: an int as its digits, a float with a fraction part.
json_number(x) == IF x.t = "int" THEN <<x.v>> ELSE <<x.v, 14, 0>>

\* The text of a str, up to its closing quote.
json_string(s) == s \o <<17>>

\* A transaction dictionary, keys sorted: amount, receiver_id, sender_id, timestamp.
json_transaction(tx) ==
    json_number(tx.amount) \o json_string(tx.receiver_id.v)
        \o json_string(tx.sender_id.v) \o json_number(tx.timestamp)

\* A text of the block that leaves the nonce out.
json_dumps_no_nonce(d) ==
    <<d.index>> \o json_string(d.previous_hash) \o json_number(d.timestamp)
        \o Flatten([i \in 1..Len(d.transactions) |-> json_transaction(d.transactions[i])])

\* Block.__dict__ written by json.dumps with sort_keys=True: index, nonce,
\* previous_hash, timestamp, transactions.  d is the dictionary, its
\* transactions the contents of the list.
json_dumps(d) ==
    <<d.index, d.nonce>> \o json_string(d.previous_hash) \o json_number(d.timestamp)
        \o Flatten([i \in 1..Len(d.transactions) |-> json_transaction(d.transactions[i])])

Modulus == HexBase ^ DigestLen

\* The digest of a text, as a number: every character of the text enters
\* it, from left to right.  DigestValue(text, lo, hi, h) is the number after
\* text[lo..hi] has entered h, the left half before the right half; the
\* number after the left half is computed before the right half starts.
RECURSIVE DigestValue(_, _, _, _)
DigestValue(text, lo, hi, h) ==
    IF lo > hi THEN h
    ELSE IF lo = hi THEN (h * 7 + text[lo] + 1) % Modulus
    ELSE LET mid == (lo + hi) \div 2
             left == DigestValue(text, lo, mid, h)
         IN  IF left < Modulus THEN DigestValue(text, mid + 1, hi, left) ELSE left

\* hexdigest(): the number written with DigestLen digits, most significant first.
hexdigest(n) == [i \in 1..DigestLen |-> (n \div (HexBase ^ (DigestLen - i))) % HexBase]

sha256_hexdigest(text) == hexdigest(DigestValue(text, 1, Len(text), 0))

----------------------------------------------------------------------------
(* class Block *)

\* A Block object; transactions is a list object of the heap.
Block(index, transactions, previous_hash, timestamp, nonce) ==
    [index |-> index, transactions |-> transactions, timestamp |-> timestamp,
     previous_hash |-> previous_hash, nonce |-> nonce]

\* The default of Block's timestamp parameter: time.time() evaluated once,
\* when the def statement runs.
Block_default_timestamp == Float(0)

\* block.__dict__ with the list's contents in place of the list object.
Block_dict(heap, block) == [block EXCEPT !.transactions = heap[block.transactions]]

\* Block.compute_hash
compute_hash(heap, block) == sha256_hexdigest(json_dumps(Block_dict(heap, block)))

----------------------------------------------------------------------------
(* class Blockchain *)

\* The list object held by self.unconfirmed_transactions.
pending == lists[unconfirmed_transactions]

\* A genesis block that shares the pending list instead of a list of its own.
genesis_block_shared(transactions) ==
    Block(0, 1, Zeros(4), Block_default_timestamp, 0)

\* Blockchain._create_genesis_block: Block(index=0, transactions=[],
\* previous_hash="0000"); transactions is the list object the literal creates.
genesis_block(transactions) ==
    Block(0, transactions, Zeros(4), Block_default_timestamp, 0)

\* Blockchain.last_block: self.chain[-1].
last_block(ch) == ch[Len(ch)]

\* A pass that moves the nonce by two.
proof_of_work_pass_skip(heap, d, search) ==
    IF startswith(search.computed_hash, Zeros(d))
    THEN [search EXCEPT !.returns = TRUE]
    ELSE LET next == [search.block EXCEPT !.nonce = @ + 2]
         IN  [returns |-> FALSE, block |-> next, computed_hash |-> compute_hash(heap, next)]

\* A pass that gives the search up once the nonce has reached 2.
proof_of_work_pass_bounded(heap, d, search) ==
    IF startswith(search.computed_hash, Zeros(d)) \/ search.block.nonce >= 2
    THEN [search EXCEPT !.returns = TRUE]
    ELSE LET next == [search.block EXCEPT !.nonce = @ + 1]
         IN  [returns |-> FALSE, block |-> next, computed_hash |-> compute_hash(heap, next)]

\* One pass of the loop of proof_of_work: the test of the hash computed
\* last and, when it lacks the zeros, the body: the nonce is incremented and
\* the hash computed again.  returns says that the test has ended the loop.
proof_of_work_pass(heap, d, search) ==
    IF startswith(search.computed_hash, Zeros(d))
    THEN [search EXCEPT !.returns = TRUE]
    ELSE LET next == [search.block EXCEPT !.nonce = @ + 1]
         IN  [returns |-> FALSE, block |-> next, computed_hash |-> compute_hash(heap, next)]

\* The loop of proof_of_work, run for at most `passes` passes: the first half
\* of the passes, then the others unless the loop has ended.
RECURSIVE proof_of_work_loop(_, _, _, _)
proof_of_work_loop(heap, d, search, passes) ==
    IF passes = 1 THEN proof_of_work_pass(heap, d, search)
    ELSE LET half == proof_of_work_loop(heap, d, search, passes \div 2)
         IN  IF half.returns THEN half
             ELSE proof_of_work_loop(heap, d, half, passes - (passes \div 2))

\* A search that computes the hash and then moves the nonce once more.
proof_of_work_late(heap, d, block) ==
    LET found == proof_of_work_loop(heap, d,
                     [returns |-> FALSE, block |-> block,
                      computed_hash |-> compute_hash(heap, block)], Modulus + 1)
    IN  [found EXCEPT !.block.nonce = @ + 1]

\* Blockchain.proof_of_work: the block as the loop left it and the hash
\* computed last are the result.  The digest of the model repeats when the
\* nonce grows by Modulus, so a loop that has not ended in Modulus + 1 passes
\* never ends: returns is FALSE.
proof_of_work(heap, d, block) ==
    proof_of_work_loop(heap, d,
        [returns |-> FALSE, block |-> block,
         computed_hash |-> compute_hash(heap, block)], Modulus + 1)

\* is_valid_proof that only tests the leading zeros.
is_valid_proof_prefix_only(heap, d, block, proof) ==
    startswith(proof, Zeros(d))

\* is_valid_proof without the test of the leading zeros.
is_valid_proof_no_prefix(heap, d, block, proof) ==
    proof = compute_hash(heap, block)

\* Blockchain.is_valid_proof
is_valid_proof(heap, d, block, proof) ==
    startswith(proof, Zeros(d)) /\ proof = compute_hash(heap, block)

\* add_block accepting a block when either of its two conditions holds.
add_block_accepts_either(heap, ch, d, block, proof) ==
    LET previous_hash == compute_hash(heap, last_block(ch))
    IN  previous_hash = block.previous_hash \/ is_valid_proof(heap, d, block, proof)

\* add_block without the comparison of previous_hash.
add_block_accepts_unlinked(heap, ch, d, block, proof) ==
    is_valid_proof(heap, d, block, proof)

\* The condition of add_block under which the block is appended.
add_block_accepts(heap, ch, d, block, proof) ==
    LET previous_hash == compute_hash(heap, last_block(ch))
    IN  previous_hash = block.previous_hash /\ is_valid_proof(heap, d, block, proof)

\* Blockchain.add_block on the chain ch: the chain it leaves and what it returns.
add_block_call(heap, ch, d, block, proof) ==
    IF add_block_accepts(heap, ch, d, block, proof)
    THEN [chain |-> Append(ch, block), ret |-> TRUE]
    ELSE [chain |-> ch, ret |-> FALSE]

\* A gate that also stops a pending list of exactly the minimum length.
mine_gate_inclusive(unconfirmed) ==
    Len(unconfirmed) <= MINIMUM_NUMBER_OF_TRANSACTIONS_PER_BLOCK

\* A gate that stops only the empty pending list.
mine_gate_empty(unconfirmed) == Len(unconfirmed) = 0

\* The gate of mine.
mine_gate(unconfirmed) == Len(unconfirmed) < MINIMUM_NUMBER_OF_TRANSACTIONS_PER_BLOCK

\* A candidate that does not link: previous_hash is the "0000" of the
\* genesis block.
mine_new_block_unlinked(heap, ch, unconfirmed_list) ==
    Block(last_block(ch).index + 1, unconfirmed_list,
          Zeros(4), Block_default_timestamp, 0)

\* A candidate with the index of the last block.
mine_new_block_same_index(heap, ch, unconfirmed_list) ==
    Block(last_block(ch).index, unconfirmed_list,
          compute_hash(heap, last_block(ch)), Block_default_timestamp, 0)

\* The candidate block of mine: its transactions are the pending list object.
mine_new_block(heap, ch, unconfirmed_list) ==
    Block(last_block(ch).index + 1, unconfirmed_list,
          compute_hash(heap, last_block(ch)), Block_default_timestamp, 0)

\* self.unconfirmed_transactions.clear(): the list object is emptied in place.
mine_rebind_clear(heap, unconfirmed_list) ==
    [lists |-> [heap EXCEPT ![unconfirmed_list] = <<>>],
     unconfirmed_transactions |-> unconfirmed_list]

\* No assignment: the attribute keeps the list object the new block holds.
mine_rebind_keep(heap, unconfirmed_list) ==
    [lists |-> heap, unconfirmed_transactions |-> unconfirmed_list]

\* self.unconfirmed_transactions = [] in mine: the attribute is bound to a
\* new empty list object; the list it held stays as it is.
mine_rebind(heap, unconfirmed_list) ==
    [lists |-> Append(heap, <<>>), unconfirmed_transactions |-> Len(heap) + 1]

----------------------------------------------------------------------------
(* The calls a single writer makes on one Blockchain object. *)

\* Blockchain.__init__ with a difficulty that passes its checks: the pending
\* list is created first, then the genesis block with a list of its own.
Blockchain(d) ==
    /\ difficulty = d
    /\ lists = << <<>>, <<>> >>
    /\ unconfirmed_transactions = 1
    /\ chain = <<genesis_block(2)>>
    /\ ret = [op |-> "Blockchain", returns |-> TRUE]
    /\ pc = "idle"

\* The number of transactions accepted so far.
RECURSIVE accepted_in(_, _)
accepted_in(heap, ch) ==
    IF ch = <<>> THEN 0 ELSE Len(heap[Head(ch).transactions]) + accepted_in(heap, Tail(ch))
accepted == Len(pending) + accepted_in(lists, chain)

\* The arguments of add_new_transaction, of the types its checks let through:
\* two ids, a float timestamp, an int or float amount.  The caller stamps a
\* transaction with its clock, which ticks once in two calls, so that two
\* transactions can be equal and the order of different ones shows.
SenderIds == {Str(<<10>>)}
ReceiverIds == {Str(<<11>>)}
TransactionTimestamps == {Float(accepted \div 2)}
Amounts == {Int(1)}

\* The type checks of add_new_transaction: whether it raises TypeError.
add_new_transaction_raises(sender_id, receiver_id, timestamp, amount) ==
    \/ ~isinstance(sender_id, {"str"})
    \/ ~isinstance(receiver_id, {"str"})
    \/ ~isinstance(timestamp, {"float"})
    \/ ~isinstance(amount, {"int", "float"})

\* Blockchain.add_new_transaction: TypeError from its checks or from
\* Transaction(...); otherwise the data of the new Transaction is appended to
\* the pending list and the Transaction returned.
add_new_transaction(sender_id, receiver_id, timestamp, amount) ==
    /\ pc = "idle"
    /\ Len(pending) < MaxPending
    /\ IF \/ add_new_transaction_raises(sender_id, receiver_id, timestamp, amount)
          \/ Transaction_raises(sender_id, receiver_id, timestamp, amount)
       THEN /\ ret' = [op |-> "add_new_transaction", returns |-> FALSE,
                       raises |-> "TypeError",
                       args |-> <<sender_id, receiver_id, timestamp, amount>>]
            /\ UNCHANGED lists
       ELSE LET transaction_details ==
                    Transaction_data(sender_id, receiver_id, timestamp, amount)
            IN  /\ lists' = [lists EXCEPT
                                ![unconfirmed_transactions] =
                                    list_append(@, transaction_details)]
                /\ ret' = [op |-> "add_new_transaction", returns |-> TRUE,
                           transaction |-> transaction_details,
                           args |-> <<sender_id, receiver_id, timestamp, amount>>]
    /\ UNCHANGED <<difficulty, unconfirmed_transactions, chain, pc, caller_block>>
    /\ UNCHANGED <<cache_file, requests, clock, frame>>

\* Blockchain.mine.  Below the gate it returns False.  Past the gate
\* self.last_block raises IndexError on an empty chain; otherwise the
\* candidate holds the pending list object itself; when the search has no
\* end the call never returns; otherwise add_block is called, its result
\* dropped, a new empty list bound to unconfirmed_transactions, and True
\* returned.
mine ==
    /\ pc = "idle"
    /\ UNCHANGED <<caller_block, cache_file, requests, clock, frame>>
    /\ IF mine_gate(pending)
       THEN /\ ret' = [op |-> "mine", returns |-> TRUE, ret |-> FALSE]
            /\ UNCHANGED <<difficulty, unconfirmed_transactions, chain, lists, pc>>
       ELSE IF chain = <<>>
       THEN /\ ret' = [op |-> "mine", returns |-> FALSE, raises |-> "IndexError"]
            /\ UNCHANGED <<difficulty, unconfirmed_transactions, chain, lists, pc>>
       ELSE LET new_block == mine_new_block(lists, chain, unconfirmed_transactions)
                found == proof_of_work(lists, difficulty, new_block)
                added == add_block_call(lists, chain, difficulty,
                                        found.block, found.computed_hash)
            IN  IF ~found.returns
                THEN /\ pc' = "proof_of_work"
                     /\ ret' = [op |-> "mine", returns |-> FALSE]
                     /\ UNCHANGED <<difficulty, unconfirmed_transactions, chain, lists>>
                ELSE /\ Len(chain) < MaxChain
                     /\ chain' = added.chain
                     /\ lists' = mine_rebind(lists, unconfirmed_transactions).lists
                     /\ unconfirmed_transactions' =
                            mine_rebind(lists, unconfirmed_transactions).unconfirmed_transactions
                     /\ ret' = [op |-> "mine", returns |-> TRUE, ret |-> TRUE]
                     /\ UNCHANGED <<difficulty, pc>>

\* str.replace("0", "1"), as the tests spoil a proof.
replace_0_1(s) == [i \in DOMAIN s |-> IF s[i] = 0 THEN 1 ELSE s[i]]

\* The blocks a caller builds for add_block: the next index, a list of its
\* own, the hash of the last block or the "0000" of a block that does not
\* link, the nonce it starts from.
CallerTransactions == {<<>>}
CallerTimestamps == {Block_default_timestamp}
CallerPreviousHashes == {compute_hash(lists, last_block(chain)), Zeros(4)}

\* The proofs a caller passes for a block: the hash proof_of_work returned,
\* the hash the block had before the search, and either of them spoiled.
CallerProofs(heap, built, found) ==
    LET hashes == {found.computed_hash, compute_hash(heap, built)}
    IN  hashes \cup {replace_0_1(h) : h \in hashes}

\* Blockchain.add_block, called with a block the caller built and, when
\* searched, ran proof_of_work on.
add_block(index, transactions, previous_hash, timestamp, nonce, searched) ==
    /\ pc = "idle"
    /\ Len(chain) < MaxChain
    /\ LET heap == Append(lists, transactions)
           built == Block(index, Len(heap), previous_hash, timestamp, nonce)
           found == IF searched THEN proof_of_work(heap, difficulty, built)
                    ELSE [returns |-> TRUE, block |-> built,
                          computed_hash |-> compute_hash(heap, built)]
       IN  /\ found.returns
           /\ \E proof \in CallerProofs(heap, built, found) :
                  LET added == add_block_call(heap, chain, difficulty, found.block, proof)
                  IN  /\ chain' = added.chain
                      /\ lists' = IF added.ret THEN heap ELSE lists
                      /\ ret' = [op |-> "add_block", returns |-> TRUE, ret |-> added.ret,
                                 block |-> found.block, transactions |-> transactions,
                                 proof |-> proof]
    /\ UNCHANGED <<difficulty, unconfirmed_transactions, pc, caller_block>>
    /\ UNCHANGED <<cache_file, requests, clock, frame>>

Init ==
    /\ \E d \in 1..MaxDifficulty : Blockchain(d)
    /\ caller_block = <<>>
    /\ cache_file = File(FALSE, <<>>)
    /\ requests = 0
    /\ clock = 0
    /\ frame = <<>>

Next ==
    \/ \E s \in SenderIds, r \in ReceiverIds, t \in TransactionTimestamps, a \in Amounts :
           add_new_transaction(s, r, t, a)
    \/ mine
    \/ \E tx \in CallerTransactions, p \in CallerPreviousHashes, t \in CallerTimestamps,
          searched \in BOOLEAN :
           add_block(last_block(chain).index + 1, tx, p, t, 0, searched)

Spec == Init /\ [][Next]_vars

----------------------------------------------------------------------------
(* Properties of the single-writer calls, checked under Spec. *)

\* The blocks of a chain as dictionaries, each list by its contents.
chain_dicts(heap, ch) == [i \in 1..Len(ch) |-> Block_dict(heap, ch[i])]

\* Whether chain_dicts p is a prefix of chain_dicts q.
IsPrefix(p, q) == Len(p) <= Len(q) /\ \A i \in 1..Len(p) : p[i] = q[i]

\* C1: add_block(block, proof) returns True exactly when block.previous_hash
\* equals the hash of the last block at the time of the call and
\* is_valid_proof(block, proof) holds; when it returns True the chain is the
\* old chain with that block appended, and when it returns False the chain is
\* unchanged.
C1_AddBlockCommitGate ==
    [][ret'.op = "add_block" =>
        LET heap == Append(lists, ret'.transactions)
            block == ret'.block
            links == block.previous_hash = compute_hash(lists, last_block(chain))
            valid == is_valid_proof(heap, difficulty, block, ret'.proof)
        IN  /\ ret'.ret = (links /\ valid)
            /\ ret'.ret =>
                  /\ Len(chain') = Len(chain) + 1
                  /\ IsPrefix(chain_dicts(lists, chain), chain_dicts(lists', chain'))
                  /\ Block_dict(lists', last_block(chain')) = Block_dict(heap, block)
            /\ ~ret'.ret =>
                  /\ chain' = chain
                  /\ chain_dicts(lists', chain') = chain_dicts(lists, chain)
    ]_vars

\* An add_block that appended to a chain of more than the genesis block.
C1_Witness == ret.op = "add_block" /\ ret.ret /\ Len(chain) >= 3

\* C2: whenever mine() is called with at least
\* MINIMUM_NUMBER_OF_TRANSACTIONS_PER_BLOCK pending transactions and returns,
\* it returns True, the chain is one block longer, the new last block's
\* transactions are the whole pending sequence as it stood at the call, and
\* pending is empty afterward.
C2_MineCommits ==
    [][(/\ ret'.op = "mine"
        /\ ret'.returns
        /\ Len(pending) >= MINIMUM_NUMBER_OF_TRANSACTIONS_PER_BLOCK) =>
        /\ ret'.ret = TRUE
        /\ Len(chain') = Len(chain) + 1
        /\ IsPrefix(chain_dicts(lists, chain), chain_dicts(lists', chain'))
        /\ lists'[last_block(chain').transactions] = pending
        /\ pending' = <<>>
    ]_vars

\* A mine() that committed more transactions than the minimum.
C2_Witness ==
    /\ ret.op = "mine" /\ ret.returns /\ ret.ret
    /\ Len(lists[last_block(chain).transactions]) > MINIMUM_NUMBER_OF_TRANSACTIONS_PER_BLOCK
    /\ pending = <<>>

\* C3: mine() called with fewer than MINIMUM_NUMBER_OF_TRANSACTIONS_PER_BLOCK
\* pending transactions returns False and changes neither the chain, nor the
\* pending list, nor the difficulty.
C3_MineGate ==
    [][(ret'.op = "mine" /\ Len(pending) < MINIMUM_NUMBER_OF_TRANSACTIONS_PER_BLOCK) =>
        /\ ret'.returns
        /\ ret'.ret = FALSE
        /\ chain' = chain
        /\ chain_dicts(lists', chain') = chain_dicts(lists, chain)
        /\ pending' = pending
        /\ difficulty' = difficulty
    ]_vars

\* A gated mine() on a ledger that holds pending transactions and a mined block.
C3_Witness ==
    /\ ret.op = "mine" /\ ret.returns /\ ~ret.ret
    /\ Len(pending) = 2
    /\ Len(chain) >= 2

\* C4: for every i > 0, chain[i].previous_hash is the hash of chain[i-1] as
\* it is now.
C4_HashLinkage ==
    \A i \in 2..Len(chain) : chain[i].previous_hash = compute_hash(lists, chain[i - 1])

\* A chain of three blocks, the middle one holding transactions.
C4_Witness == Len(chain) >= 3 /\ Len(lists[chain[2].transactions]) > 0

\* C5: a block appended to the chain has, when it is appended, a hash that
\* starts with `difficulty` zeros.
C5_ProofOfWorkAtCommit ==
    [][Len(chain') > Len(chain) =>
        startswith(compute_hash(lists', last_block(chain')), Zeros(difficulty'))
    ]_vars

\* A block mined at difficulty 2 and a block added by add_block after it.
C5_Witness ==
    /\ difficulty = 2
    /\ Len(chain) >= 3
    /\ ret.op = "add_block" /\ ret.ret
    /\ Len(lists[chain[2].transactions]) > 0

\* C6: every step leaves the old chain a prefix of the new one, block by
\* block and field by field, and the difficulty as it was; add_new_transaction,
\* a gated mine() and a rejected add_block leave the chain as it was.
C6_AppendOnly ==
    [][/\ IsPrefix(chain_dicts(lists, chain), chain_dicts(lists', chain'))
       /\ difficulty' = difficulty
       /\ (\/ ret'.op = "add_new_transaction"
           \/ (ret'.op = "mine" /\ ret'.returns /\ ~ret'.ret)
           \/ (ret'.op = "add_block" /\ ~ret'.ret))
          => chain_dicts(lists', chain') = chain_dicts(lists, chain)
    ]_vars

\* A transaction accepted after a block was mined.
C6_Witness ==
    /\ ret.op = "add_new_transaction"
    /\ Len(chain) >= 2
    /\ Len(lists[last_block(chain).transactions]) > 0

\* C7: the chain is never empty and its first block has index 0,
\* previous_hash "0000" and no transactions.
C7_Genesis ==
    /\ Len(chain) >= 1
    /\ chain[1].index = 0
    /\ chain[1].previous_hash = Zeros(4)
    /\ lists[chain[1].transactions] = <<>>

\* A full chain with transactions pending.
C7_Witness == Len(chain) = MaxChain /\ Len(pending) > 0

----------------------------------------------------------------------------
(* The snapshot functions and the ledgers they reconstruct. *)

\* int(x) and float(x) of a JSON number.
python_int(x) == x.v
python_float(x) == Float(x.v)

\* A dictionary without the pending transactions.
Blockchain_dict_no_pending(heap, d, unconfirmed_list, ch) ==
    [difficulty |-> Int(d),
     unconfirmed_transactions |-> <<>>,
     length |-> Int(Len(ch)),
     chain |-> [i \in 1..Len(ch) |->
                   [index |-> Int(ch[i].index),
                    transactions |-> heap[ch[i].transactions],
                    timestamp |-> ch[i].timestamp,
                    previous_hash |-> ch[i].previous_hash,
                    nonce |-> Int(ch[i].nonce)]]]

\* Blockchain.__dict__(): the dictionary of the ledger, the blocks by their
\* __dict__, each list by its contents.
Blockchain_dict(heap, d, unconfirmed_list, ch) ==
    [difficulty |-> Int(d),
     unconfirmed_transactions |-> heap[unconfirmed_list],
     length |-> Int(Len(ch)),
     chain |-> [i \in 1..Len(ch) |->
                   [index |-> Int(ch[i].index),
                    transactions |-> heap[ch[i].transactions],
                    timestamp |-> ch[i].timestamp,
                    previous_hash |-> ch[i].previous_hash,
                    nonce |-> Int(ch[i].nonce)]]]

\* json.dumps of a ledger dictionary: the document, every number and every
\* str of it as its text.
json_dumps_transaction(tx) ==
    [sender_id |-> json_string(tx.sender_id.v),
     receiver_id |-> json_string(tx.receiver_id.v),
     timestamp |-> json_number(tx.timestamp),
     amount |-> json_number(tx.amount)]

json_dumps_blockchain(dict) ==
    [difficulty |-> json_number(dict.difficulty),
     unconfirmed_transactions |->
         [i \in 1..Len(dict.unconfirmed_transactions) |->
             json_dumps_transaction(dict.unconfirmed_transactions[i])],
     length |-> json_number(dict.length),
     chain |-> [i \in 1..Len(dict.chain) |->
                   [index |-> json_number(dict.chain[i].index),
                    transactions |->
                        [j \in 1..Len(dict.chain[i].transactions) |->
                            json_dumps_transaction(dict.chain[i].transactions[j])],
                    timestamp |-> json_number(dict.chain[i].timestamp),
                    previous_hash |-> json_string(dict.chain[i].previous_hash),
                    nonce |-> json_number(dict.chain[i].nonce)]]]

\* json.load: a number written with a fraction part is a float, one written
\* without is an int; a str is the text up to its closing quote.
\* A json.load that reads every number as a float.
json_load_number_float(text) == Float(text[1])
json_load_number(text) == IF Len(text) = 1 THEN Int(text[1]) ELSE Float(text[1])
json_load_string(text) == SubSeq(text, 1, Len(text) - 1)

json_load_transaction(tx) ==
    [sender_id |-> Str(json_load_string(tx.sender_id)),
     receiver_id |-> Str(json_load_string(tx.receiver_id)),
     timestamp |-> json_load_number(tx.timestamp),
     amount |-> json_load_number(tx.amount)]

json_load(document) ==
    [difficulty |-> json_load_number(document.difficulty),
     unconfirmed_transactions |->
         [i \in 1..Len(document.unconfirmed_transactions) |->
             json_load_transaction(document.unconfirmed_transactions[i])],
     length |-> json_load_number(document.length),
     chain |-> [i \in 1..Len(document.chain) |->
                   [index |-> json_load_number(document.chain[i].index),
                    transactions |->
                        [j \in 1..Len(document.chain[i].transactions) |->
                            json_load_transaction(document.chain[i].transactions[j])],
                    timestamp |-> json_load_number(document.chain[i].timestamp),
                    previous_hash |-> json_load_string(document.chain[i].previous_hash),
                    nonce |-> json_load_number(document.chain[i].nonce)]]]

\* A parser that leaves the genesis block of Blockchain() in the chain.
parse_keep_genesis(cached_blockchain) ==
    LET records == cached_blockchain.chain
    IN  [difficulty |-> python_int(cached_blockchain.difficulty),
         lists |-> <<cached_blockchain.unconfirmed_transactions, <<>> >>
                       \o [i \in 1..Len(records) |-> records[i].transactions],
         unconfirmed_transactions |-> 1,
         chain |-> <<genesis_block(2)>> \o
                   [i \in 1..Len(records) |->
                       Block(python_int(records[i].index), i + 2,
                             records[i].previous_hash,
                             python_float(records[i].timestamp),
                             python_int(records[i].nonce))]]

\* _parse_blockchain_from_txt_file: Blockchain() without its genesis block,
\* the difficulty and the pending list of the document, one Block for each
\* record of the document.  The pending list is list 1 of the new heap and
\* the list of record i is list i + 1.
parse_blockchain_from_txt_file(cached_blockchain) ==
    LET records == cached_blockchain.chain
    IN  [difficulty |-> python_int(cached_blockchain.difficulty),
         lists |-> <<cached_blockchain.unconfirmed_transactions>>
                       \o [i \in 1..Len(records) |-> records[i].transactions],
         unconfirmed_transactions |-> 1,
         chain |-> [i \in 1..Len(records) |->
                       Block(python_int(records[i].index), i + 1,
                             records[i].previous_hash,
                             python_float(records[i].timestamp),
                             python_int(records[i].nonce))]]

\* A get_current_blockchain that never reads the file.
get_current_blockchain_new(blockchain_txt_file) ==
    [difficulty |-> DEFAULT_DIFFICULTY, lists |-> << <<>>, <<>> >>,
     unconfirmed_transactions |-> 1, chain |-> <<genesis_block(2)>>]

\* get_current_blockchain: the parsed ledger when the file exists and is not
\* empty, Blockchain() otherwise.
get_current_blockchain_result(blockchain_txt_file) ==
    IF blockchain_txt_file.exists /\ Len(blockchain_txt_file.documents) > 0
    THEN parse_blockchain_from_txt_file(json_load(blockchain_txt_file.documents[1]))
    ELSE [difficulty |-> DEFAULT_DIFFICULTY, lists |-> << <<>>, <<>> >>,
          unconfirmed_transactions |-> 1, chain |-> <<genesis_block(2)>>]

\* A document with no block records.
empty_chain_document ==
    [difficulty |-> json_number(Int(DEFAULT_DIFFICULTY)),
     unconfirmed_transactions |-> <<>>,
     length |-> json_number(Int(0)), chain |-> <<>>]

\* json.dumps(blockchain.__dict__()) of the ledger as it is.
snapshot ==
    json_dumps_blockchain(
        Blockchain_dict(lists, difficulty, unconfirmed_transactions, chain))

\* The files get_current_blockchain is called on: no file, an empty file,
\* the snapshot of the ledger as it is, a document with no block records.
CacheFiles ==
    {File(FALSE, <<>>), File(TRUE, <<>>), File(TRUE, <<snapshot>>),
     File(TRUE, <<empty_chain_document>>)}

\* blockchain = get_current_blockchain(path): the caller goes on with the
\* ledger the function returns.
get_current_blockchain(blockchain_txt_file) ==
    /\ pc = "idle"
    /\ LET blockchain == get_current_blockchain_result(blockchain_txt_file)
       IN  /\ difficulty' = blockchain.difficulty
           /\ lists' = blockchain.lists
           /\ unconfirmed_transactions' = blockchain.unconfirmed_transactions
           /\ chain' = blockchain.chain
    /\ ret' = [op |-> "get_current_blockchain", returns |-> TRUE,
               file |-> blockchain_txt_file]
    /\ UNCHANGED <<pc, caller_block>>
    /\ UNCHANGED <<cache_file, requests, clock, frame>>

\* blockchain.last_block: self.chain[-1], IndexError on an empty chain.
last_block_call ==
    /\ pc = "idle"
    /\ ret' = IF chain = <<>>
              THEN [op |-> "last_block", returns |-> FALSE, raises |-> "IndexError"]
              ELSE [op |-> "last_block", returns |-> TRUE, ret |-> last_block(chain)]
    /\ UNCHANGED <<difficulty, unconfirmed_transactions, chain, lists, pc, caller_block>>
    /\ UNCHANGED <<cache_file, requests, clock, frame>>

\* The calls made on a ledger that may have been loaded from a file.
NextCache ==
    \/ \E file \in CacheFiles : get_current_blockchain(file)
    \/ \E s \in SenderIds, r \in ReceiverIds, t \in TransactionTimestamps, a \in Amounts :
           add_new_transaction(s, r, t, a)
    \/ mine
    \/ last_block_call

SpecCache == Init /\ [][NextCache]_vars

\* C8: on every ledger, constructed, changed by calls or loaded from a file
\* that parses, the chain is not empty and last_block returns its last block
\* without an error.
C8_LastBlockExists ==
    /\ Len(chain) >= 1
    /\ ret.op = "last_block" => (ret.returns /\ ret.ret = chain[Len(chain)])

----------------------------------------------------------------------------
(* proof_of_work and is_valid_proof called on a block the caller holds. *)

\* Every string hexdigest() can return.
Digests == [1..DigestLen -> 0..(HexBase - 1)]

\* A caller builds a block on a new Blockchain: Block(1, [], previous_hash,
\* timestamp, nonce), the timestamp a float or an int.
InitBlock ==
    \E d \in 1..MaxDifficulty, n \in 0..MaxNonce,
       t \in {Block_default_timestamp, Int(0)},
       p \in {compute_hash(<< <<>>, <<>> >>, genesis_block(2)), Zeros(4)} :
        /\ difficulty = d
        /\ lists = << <<>>, <<>>, <<>> >>
        /\ unconfirmed_transactions = 1
        /\ chain = <<genesis_block(2)>>
        /\ caller_block = <<Block(1, 3, p, t, n)>>
        /\ ret = [op |-> "Block", returns |-> TRUE]
        /\ pc = "idle"
        /\ cache_file = File(FALSE, <<>>)
        /\ requests = 0
        /\ clock = 0
        /\ frame = <<>>

\* blockchain.proof_of_work(block): the search changes the nonce of the
\* caller's block and returns the hash, or never returns.
proof_of_work_call ==
    /\ pc = "idle"
    /\ LET found == proof_of_work(lists, difficulty, caller_block[1])
       IN  IF found.returns
           THEN /\ caller_block' = <<found.block>>
                /\ ret' = [op |-> "proof_of_work", returns |-> TRUE,
                           ret |-> found.computed_hash, nonce |-> caller_block[1].nonce]
                /\ pc' = pc
           ELSE /\ pc' = "proof_of_work"
                /\ ret' = [op |-> "proof_of_work", returns |-> FALSE]
                /\ UNCHANGED caller_block
    /\ UNCHANGED <<difficulty, unconfirmed_transactions, chain, lists>>
    /\ UNCHANGED <<cache_file, requests, clock, frame>>

\* blockchain.is_valid_proof(block, proof)
is_valid_proof_call(proof) ==
    /\ pc = "idle"
    /\ ret' = [op |-> "is_valid_proof", returns |-> TRUE, proof |-> proof,
               ret |-> is_valid_proof(lists, difficulty, caller_block[1], proof)]
    /\ UNCHANGED <<difficulty, unconfirmed_transactions, chain, lists, pc, caller_block>>
    /\ UNCHANGED <<cache_file, requests, clock, frame>>

\* block.nonce = n: the caller assigns the attribute.
set_nonce(n) ==
    /\ pc = "idle"
    /\ caller_block[1].nonce # n
    /\ caller_block' = <<[caller_block[1] EXCEPT !.nonce = n]>>
    /\ ret' = [op |-> "set_nonce", returns |-> TRUE]
    /\ UNCHANGED <<difficulty, unconfirmed_transactions, chain, lists, pc>>
    /\ UNCHANGED <<cache_file, requests, clock, frame>>

NextBlock ==
    \/ proof_of_work_call
    \/ \E proof \in Digests \cup {Zeros(4)} : is_valid_proof_call(proof)
    \/ \E n \in 0..MaxNonce : set_nonce(n)

SpecBlock == InitBlock /\ [][NextBlock]_vars

\* C9: when proof_of_work(block) has returned the hash h, h starts with
\* `difficulty` zeros, h is the hash of the block with the nonce the search
\* left, and is_valid_proof(block, h) is true.
C9_ProofOfWorkResult ==
    (ret.op = "proof_of_work" /\ ret.returns) =>
        /\ startswith(ret.ret, Zeros(difficulty))
        /\ ret.ret = compute_hash(lists, caller_block[1])
        /\ is_valid_proof(lists, difficulty, caller_block[1], ret.ret)

\* A search that had to change the nonce, at difficulty 2.
C9_Witness ==
    /\ ret.op = "proof_of_work" /\ ret.returns
    /\ difficulty = 2
    /\ caller_block[1].nonce > ret.nonce + 1

\* C10: is_valid_proof(block, proof) is true exactly when proof starts with
\* `difficulty` zeros and equals the hash of the block as it is now; a proof
\* that is the block's hash under another nonce and not under this one is
\* rejected, and so is the block's hash when it lacks the zeros.
C10_IsValidProof ==
    ret.op = "is_valid_proof" =>
        LET block == caller_block[1]
            now == compute_hash(lists, block)
        IN  /\ ret.ret = (startswith(ret.proof, Zeros(difficulty)) /\ ret.proof = now)
            /\ (\E n \in 0..(MaxNonce + Modulus) :
                    /\ n # block.nonce
                    /\ ret.proof = compute_hash(lists, [block EXCEPT !.nonce = n])
                    /\ ret.proof # now) => ~ret.ret
            /\ (ret.proof = now /\ ~startswith(now, Zeros(difficulty))) => ~ret.ret

\* The proof has the zeros and is the hash the block has under another nonce,
\* not the hash it has under its own, and it is rejected.
C10_Witness ==
    /\ ret.op = "is_valid_proof" /\ ~ret.ret
    /\ startswith(ret.proof, Zeros(difficulty))
    /\ ret.proof # compute_hash(lists, caller_block[1])
    /\ \E n \in 2..(MaxNonce + Modulus) :
           ret.proof = compute_hash(lists, [caller_block[1] EXCEPT !.nonce = n])

----------------------------------------------------------------------------
(* add_new_transaction with arguments of any type, and mine. *)

\* Arguments with one of them of a type the checks reject: an int for an id,
\* a str or an int for the timestamp, a str for the amount.
InvalidTransactionArguments ==
    {<<Int(10), Str(<<11>>), Float(0), Int(1)>>,
     <<Str(<<10>>), Int(11), Float(0), Int(1)>>,
     <<Str(<<10>>), Str(<<11>>), Str(<<1, 0>>), Int(1)>>,
     <<Str(<<10>>), Str(<<11>>), Int(0), Int(1)>>,
     <<Str(<<10>>), Str(<<11>>), Float(0), Str(<<1>>)>>}

\* Arguments the checks let through: the next transaction of the caller.
TransactionArguments ==
    {<<s, r, t, a>> : s \in SenderIds, r \in ReceiverIds,
                      t \in TransactionTimestamps, a \in Amounts}

NextIntake ==
    \/ \E args \in TransactionArguments \cup InvalidTransactionArguments :
           add_new_transaction(args[1], args[2], args[3], args[4])
    \/ mine

SpecIntake == Init /\ [][NextIntake]_vars

\* C11: add_new_transaction with an argument of the wrong type raises
\* TypeError and leaves pending and the chain as they were; with arguments of
\* the right types it appends one dictionary at the end of pending, leaves the
\* earlier entries and the chain as they were, and returns a Transaction
\* whose data is the dictionary appended.
C11_AddNewTransaction ==
    [][ret'.op = "add_new_transaction" =>
          LET a == ret'.args
              typed == /\ a[1].t = "str" /\ a[2].t = "str"
                       /\ a[3].t = "float" /\ a[4].t \in {"int", "float"}
          IN  /\ chain' = chain
              /\ chain_dicts(lists', chain') = chain_dicts(lists, chain)
              /\ IF typed
                 THEN /\ ret'.returns
                      /\ Len(pending') = Len(pending) + 1
                      /\ SubSeq(pending', 1, Len(pending)) = pending
                      /\ pending'[Len(pending')] = ret'.transaction
                      /\ ret'.transaction =
                             [sender_id |-> a[1], receiver_id |-> a[2],
                              timestamp |-> a[3], amount |-> a[4]]
                 ELSE /\ ~ret'.returns
                      /\ ret'.raises = "TypeError"
                      /\ pending' = pending]_vars

\* An int timestamp is refused on a ledger with a committed block and
\* transactions pending.
C11_Witness ==
    /\ ret.op = "add_new_transaction" /\ ~ret.returns
    /\ ret.args[3].t = "int"
    /\ Len(chain) > 1 /\ Len(pending) > 0

\* The list objects that hold transactions: the pending list and the list of
\* each block.
holders == <<unconfirmed_transactions>> \o [i \in 1..Len(chain) |-> chain[i].transactions]

\* C12: the entries of pending are in no committed block, and every accepted
\* entry is in pending or in one block: the pending list and the lists of the
\* blocks are different list objects, and no other list holds entries.
C12_PendingDisjoint ==
    /\ \A i, j \in 1..Len(holders) : holders[i] = holders[j] => i = j
    /\ \A l \in 1..Len(lists) : lists[l] # <<>> => \E i \in 1..Len(holders) : holders[i] = l

\* Two blocks have been mined and transactions are pending again.
C12_Witness ==
    /\ Len(chain) = 3 /\ Len(pending) = 2
    /\ \A i \in 2..3 : Len(lists[chain[i].transactions]) >= 3

\* The k-th transaction the caller submits.
submitted(k) == Transaction_data(Str(<<10>>), Str(<<11>>), Float((k - 1) \div 2), Int(1))

\* C13: the accepted transactions are held in call order, duplicates kept:
\* the lists of the blocks in chain order followed by pending are the
\* transactions in the order of submission, and a mine() that returns True
\* leaves the pending sequence of the call as the list of the new last block
\* and pending empty.
C13_OrderPreserved ==
    /\ Flatten([i \in 1..Len(chain) |-> lists[chain[i].transactions]]) \o pending
           = [k \in 1..accepted |-> submitted(k)]
    /\ (ret.op = "mine" /\ ret.returns /\ ret.ret) =>
           /\ pending = <<>>
           /\ Len(lists[last_block(chain).transactions])
                  >= MINIMUM_NUMBER_OF_TRANSACTIONS_PER_BLOCK

\* Three transactions, the first two equal, then mine(): a chain of two
\* blocks, the second with the three in order, and nothing pending.
C13_Witness ==
    /\ ret.op = "mine" /\ ret.returns /\ ret.ret
    /\ Len(chain) = 2
    /\ lists[chain[2].transactions] = <<submitted(1), submitted(2), submitted(3)>>
    /\ submitted(1) = submitted(2) /\ submitted(2) # submitted(3)
    /\ pending = <<>>

----------------------------------------------------------------------------
(* Snapshots written from a ledger, edited by hand or not, and read back. *)

\* A document with its block records in the opposite order.
reversed_document(document) ==
    [document EXCEPT !.chain = [i \in 1..Len(@) |-> @[Len(@) + 1 - i]]]

\* A document with the nonce of every block record overwritten by 0.
spoiled_document(document) ==
    [document EXCEPT !.chain = [i \in 1..Len(@) |-> [@[i] EXCEPT !.nonce = json_number(Int(0))]]]

\* The files read back: the snapshot of the ledger as it is, and the
\* snapshot edited by hand.
SnapshotFiles ==
    {File(TRUE, <<snapshot>>), File(TRUE, <<reversed_document(snapshot)>>),
     File(TRUE, <<spoiled_document(snapshot)>>)}

\* The timestamps of the blocks a caller builds: a float or an int.
SnapshotCallerTimestamps == {Block_default_timestamp, Int(0)}

NextSnapshot ==
    \/ \E args \in TransactionArguments :
           add_new_transaction(args[1], args[2], args[3], args[4])
    \/ mine
    \/ \E t \in SnapshotCallerTimestamps :
           add_block(last_block(chain).index + 1, <<>>,
                     compute_hash(lists, last_block(chain)), t, 0, TRUE)
    \/ \E file \in SnapshotFiles : get_current_blockchain(file)

SpecSnapshot == Init /\ [][NextSnapshot]_vars

C15_TrustOnRead ==
    [][(ret'.op = "get_current_blockchain" /\ ret'.file.documents # <<>>) =>
          LET document == ret'.file.documents[1]
          IN  /\ ret'.returns
              /\ json_number(Int(difficulty')) = document.difficulty
              /\ Len(pending') = Len(document.unconfirmed_transactions)
              /\ \A j \in 1..Len(pending') :
                     json_dumps_transaction(pending'[j]) = document.unconfirmed_transactions[j]
              /\ Len(chain') = Len(document.chain)
              /\ \A i \in 1..Len(chain') :
                     LET block == chain'[i]
                         record == document.chain[i]
                         transactions == lists'[block.transactions]
                     IN  /\ json_number(Int(block.index)) = record.index
                         /\ json_number(Int(block.nonce)) = record.nonce
                         /\ json_string(block.previous_hash) = record.previous_hash
                         /\ block.timestamp.v = record.timestamp[1]
                         /\ Len(transactions) = Len(record.transactions)
                         /\ \A j \in 1..Len(transactions) :
                                json_dumps_transaction(transactions[j])
                                    = record.transactions[j]]_vars

\* A document is parsed whose second record does not give the hash of the
\* first as its previous_hash and whose last record has a hash without the
\* zeros of the difficulty.
C15_Witness ==
    /\ ret.op = "get_current_blockchain"
    /\ Len(chain) = 3
    /\ chain[2].previous_hash # compute_hash(lists, chain[1])
    /\ ~startswith(compute_hash(lists, chain[3]), Zeros(difficulty))
    /\ Len(pending) > 0

\* C16: get_current_blockchain on a path with no file or with an empty file
\* returns a ledger with difficulty 3, nothing pending and a chain of one
\* block, the genesis block: index 0, previous_hash "0000", no transactions,
\* nonce 0.  On a file that is not empty it returns the ledger parsed from
\* the document of the file.
C16_ColdStart ==
    [][ret'.op = "get_current_blockchain" =>
          IF ~ret'.file.exists \/ ret'.file.documents = <<>>
          THEN /\ ret'.returns
               /\ difficulty' = 3
               /\ pending' = <<>>
               /\ Len(chain') = 1
               /\ chain'[1].index = 0
               /\ chain'[1].previous_hash = <<0, 0, 0, 0>>
               /\ lists'[chain'[1].transactions] = <<>>
               /\ chain'[1].nonce = 0
          ELSE LET document == ret'.file.documents[1]
               IN  /\ ret'.returns
                   /\ json_number(Int(difficulty')) = document.difficulty
                   /\ Len(pending') = Len(document.unconfirmed_transactions)
                   /\ Len(chain') = Len(document.chain)
                   /\ \A i \in 1..Len(chain') :
                          /\ json_number(Int(chain'[i].index)) = document.chain[i].index
                          /\ json_number(Int(chain'[i].nonce)) = document.chain[i].nonce]_vars

\* A cold start on an empty file: the ledger is new whatever it was before.
C16_Witness ==
    /\ ret.op = "get_current_blockchain"
    /\ ret.file = File(TRUE, <<>>)
    /\ difficulty = DEFAULT_DIFFICULTY /\ pending = <<>> /\ Len(chain) = 1

-----------------------------------------------------------------------------
(* application.py: the requests of the service, one after another.  Each
   handler loads the ledger from the cache file and works on that object. *)

\* A dict: its keys are the domain of v.
Dict(v) == [t |-> "dict", v |-> v]

\* check_data_is_valid_transaction without the test of len(data).
check_data_any_length(data) ==
    IF ~isinstance(data, {"dict"}) THEN FALSE
    ELSE IF "sender_id" \notin DOMAIN data.v THEN FALSE
    ELSE IF "receiver_id" \notin DOMAIN data.v THEN FALSE
    ELSE IF "timestamp" \notin DOMAIN data.v THEN FALSE
    ELSE IF "amount" \notin DOMAIN data.v THEN FALSE
    ELSE IF ~isinstance(data.v["sender_id"], {"str"}) THEN FALSE
    ELSE IF ~isinstance(data.v["receiver_id"], {"str"}) THEN FALSE
    ELSE IF ~isinstance(data.v["timestamp"], {"float"}) THEN FALSE
    ELSE IF ~isinstance(data.v["amount"], {"int", "float"}) THEN FALSE
    ELSE TRUE

\* check_data_is_valid_transaction: a dict of exactly the four keys, with
\* str ids, a float timestamp and an int or float amount.
check_data_is_valid_transaction(data) ==
    IF ~isinstance(data, {"dict"}) THEN FALSE
    ELSE IF Cardinality(DOMAIN data.v) # 4 THEN FALSE
    ELSE IF "sender_id" \notin DOMAIN data.v THEN FALSE
    ELSE IF "receiver_id" \notin DOMAIN data.v THEN FALSE
    ELSE IF "timestamp" \notin DOMAIN data.v THEN FALSE
    ELSE IF "amount" \notin DOMAIN data.v THEN FALSE
    ELSE IF ~isinstance(data.v["sender_id"], {"str"}) THEN FALSE
    ELSE IF ~isinstance(data.v["receiver_id"], {"str"}) THEN FALSE
    ELSE IF ~isinstance(data.v["timestamp"], {"float"}) THEN FALSE
    ELSE IF ~isinstance(data.v["amount"], {"int", "float"}) THEN FALSE
    ELSE TRUE

\* A handler that never calls mine.
mine_call_skipped(blockchain) ==
    [returns |-> TRUE, raises |-> FALSE, blockchain |-> blockchain]

\* blockchain.mine() on the ledger object of a handler: what mine does to
\* that object, whether it raises and whether it returns at all.
mine_call(blockchain) ==
    IF mine_gate(blockchain.lists[blockchain.unconfirmed_transactions])
    THEN [returns |-> TRUE, raises |-> FALSE, blockchain |-> blockchain]
    ELSE IF blockchain.chain = <<>>
    THEN [returns |-> TRUE, raises |-> TRUE, blockchain |-> blockchain]
    ELSE LET new_block == mine_new_block(blockchain.lists, blockchain.chain,
                                         blockchain.unconfirmed_transactions)
             found == proof_of_work(blockchain.lists, blockchain.difficulty,
                                    new_block)
             added == add_block_call(blockchain.lists, blockchain.chain,
                                     blockchain.difficulty,
                                     found.block, found.computed_hash)
             rebound == mine_rebind(blockchain.lists,
                                    blockchain.unconfirmed_transactions)
         IN  IF ~found.returns
             THEN [returns |-> FALSE, raises |-> FALSE, blockchain |-> blockchain]
             ELSE [returns |-> TRUE, raises |-> FALSE,
                   blockchain |->
                       [difficulty |-> blockchain.difficulty,
                        lists |-> rebound.lists,
                        unconfirmed_transactions |->
                            rebound.unconfirmed_transactions,
                        chain |-> added.chain]]

\* The payloads of /send that pass check_data_is_valid_transaction.
ValidPayloads ==
    {Dict([sender_id |-> Str(<<10>>), receiver_id |-> Str(<<11>>),
           timestamp |-> Float(requests \div 2), amount |-> Int(1)])}

\* Payloads that fail it: not a dict, three keys, five keys, four keys with
\* one of the names missing, a value of the wrong type.
InvalidPayloads ==
    {Str(<<10>>),
     Dict([sender_id |-> Str(<<10>>), receiver_id |-> Str(<<11>>),
           timestamp |-> Float(0)]),
     Dict([sender_id |-> Str(<<10>>), receiver_id |-> Str(<<11>>),
           timestamp |-> Float(0), amount |-> Int(1), memo |-> Str(<<12>>)]),
     Dict([sender |-> Str(<<10>>), receiver_id |-> Str(<<11>>),
           timestamp |-> Float(0), amount |-> Int(1)]),
     Dict([sender_id |-> Str(<<10>>), receiver |-> Str(<<11>>),
           timestamp |-> Float(0), amount |-> Int(1)]),
     Dict([sender_id |-> Str(<<10>>), receiver_id |-> Str(<<11>>),
           time |-> Float(0), amount |-> Int(1)]),
     Dict([sender_id |-> Str(<<10>>), receiver_id |-> Str(<<11>>),
           timestamp |-> Float(0), value |-> Int(1)]),
     Dict([sender_id |-> Int(1), receiver_id |-> Str(<<11>>),
           timestamp |-> Float(0), amount |-> Int(1)]),
     Dict([sender_id |-> Str(<<10>>), receiver_id |-> Int(1),
           timestamp |-> Float(0), amount |-> Int(1)]),
     Dict([sender_id |-> Str(<<10>>), receiver_id |-> Str(<<11>>),
           timestamp |-> Int(0), amount |-> Int(1)]),
     Dict([sender_id |-> Str(<<10>>), receiver_id |-> Str(<<11>>),
           timestamp |-> Float(0), amount |-> Str(<<1>>)])}

\* POST /send with the payload data, as one request.  The ledger is loaded
\* from the cache file.  A payload that fails the check is answered 400
\* before anything else is done.  Otherwise the transaction is added, mine
\* is called, the snapshot of the ledger is written over the cache file and
\* the transaction is the answer, 200.  Whatever is raised on the way is
\* answered "FAILURE", 400; a search that has no end leaves the request
\* without answer.
add_transaction_to_blockchain(data) ==
    /\ pc = "idle"
    /\ UNCHANGED <<caller_block, clock, frame>>
    /\ LET blockchain == get_current_blockchain_result(cache_file)
       IN  IF ~check_data_is_valid_transaction(data)
           THEN /\ difficulty' = blockchain.difficulty
                /\ lists' = blockchain.lists
                /\ unconfirmed_transactions' = blockchain.unconfirmed_transactions
                /\ chain' = blockchain.chain
                /\ ret' = [op |-> "/send", returns |-> TRUE, status |-> 400,
                           body |-> "Invalid Transaction!", data |-> data]
                /\ UNCHANGED <<pc, cache_file, requests>>
           ELSE IF \/ add_new_transaction_raises(
                          data.v["sender_id"], data.v["receiver_id"],
                          data.v["timestamp"], data.v["amount"])
                   \/ Transaction_raises(
                          data.v["sender_id"], data.v["receiver_id"],
                          data.v["timestamp"], data.v["amount"])
           THEN /\ difficulty' = blockchain.difficulty
                /\ lists' = blockchain.lists
                /\ unconfirmed_transactions' = blockchain.unconfirmed_transactions
                /\ chain' = blockchain.chain
                /\ ret' = [op |-> "/send", returns |-> TRUE, status |-> 400,
                           body |-> "FAILURE", data |-> data]
                /\ UNCHANGED <<pc, cache_file, requests>>
           ELSE LET transaction_details ==
                        Transaction_data(
                            data.v["sender_id"], data.v["receiver_id"],
                            data.v["timestamp"], data.v["amount"])
                    added == [blockchain EXCEPT
                                 !.lists[blockchain.unconfirmed_transactions] =
                                     list_append(@, transaction_details)]
                    mined == mine_call(added)
                IN  /\ Len(mined.blockchain.chain) <= MaxChain
                    /\ difficulty' = mined.blockchain.difficulty
                    /\ lists' = mined.blockchain.lists
                    /\ unconfirmed_transactions' =
                           mined.blockchain.unconfirmed_transactions
                    /\ chain' = mined.blockchain.chain
                    /\ IF ~mined.returns
                       THEN /\ pc' = "proof_of_work"
                            /\ ret' = [op |-> "/send", returns |-> FALSE,
                                       data |-> data]
                            /\ UNCHANGED <<cache_file, requests>>
                       ELSE IF mined.raises
                       THEN /\ ret' = [op |-> "/send", returns |-> TRUE,
                                       status |-> 400, body |-> "FAILURE",
                                       data |-> data]
                            /\ UNCHANGED <<pc, cache_file, requests>>
                       ELSE /\ cache_file' =
                                   File(TRUE,
                                        <<json_dumps_blockchain(
                                            Blockchain_dict(
                                                mined.blockchain.lists,
                                                mined.blockchain.difficulty,
                                                mined.blockchain.unconfirmed_transactions,
                                                mined.blockchain.chain))>>)
                            /\ requests' = requests + 1
                            /\ ret' = [op |-> "/send", returns |-> TRUE,
                                       status |-> 200,
                                       body |-> json_dumps_transaction(
                                                    transaction_details),
                                       data |-> data]
                            /\ UNCHANGED pc

\* GET /chain as one request: the ledger is loaded from the cache file and
\* its snapshot is the answer, 200.  Nothing is written.
get_chain ==
    /\ pc = "idle"
    /\ LET blockchain == get_current_blockchain_result(cache_file)
       IN  /\ difficulty' = blockchain.difficulty
           /\ lists' = blockchain.lists
           /\ unconfirmed_transactions' = blockchain.unconfirmed_transactions
           /\ chain' = blockchain.chain
           /\ ret' = [op |-> "/chain", returns |-> TRUE, status |-> 200,
                      body |-> json_dumps_blockchain(
                                   Blockchain_dict(
                                       blockchain.lists, blockchain.difficulty,
                                       blockchain.unconfirmed_transactions,
                                       blockchain.chain))]
    /\ UNCHANGED <<pc, caller_block, cache_file, requests, clock, frame>>

\* The service starts with no cache file or an empty one, and no request
\* answered; the ledger variables are those of a new Blockchain().
InitApplication ==
    /\ Blockchain(DEFAULT_DIFFICULTY)
    /\ caller_block = <<>>
    /\ cache_file \in {File(FALSE, <<>>), File(TRUE, <<>>)}
    /\ requests = 0
    /\ clock = 0
    /\ frame = <<>>

NextApplication ==
    \/ \E data \in ValidPayloads \cup InvalidPayloads :
           add_transaction_to_blockchain(data)
    \/ get_chain

SpecApplication == InitApplication /\ [][NextApplication]_vars

\* The ledger a handler would load from the cache file as it is.
persisted == get_current_blockchain_result(cache_file)

\* C17: from an empty cache, after any series of /send requests of which
\* k were valid, the persisted ledger has k div 3 blocks after the genesis
\* block and k mod 3 pending transactions, so fewer than 3 are pending.
C17_RequestAccounting ==
    /\ Len(persisted.chain) - 1 = requests \div MINIMUM_NUMBER_OF_TRANSACTIONS_PER_BLOCK
    /\ Len(persisted.lists[persisted.unconfirmed_transactions])
           = requests % MINIMUM_NUMBER_OF_TRANSACTIONS_PER_BLOCK
    /\ persisted.chain[1].index = 0
    /\ Len(persisted.lists[persisted.unconfirmed_transactions]) < 3

\* Seven valid requests answered: two blocks mined, one transaction pending.
C17_Witness ==
    /\ requests = 7
    /\ ret.op = "/send"
    /\ Len(cache_file.documents) = 1
    /\ Len(cache_file.documents[1].chain) = 3
    /\ Len(cache_file.documents[1].unconfirmed_transactions) = 1
\* C18: a /send request whose payload fails the check is answered 400 and
\* leaves the cache file as it was: the ledger the handler loaded gets no
\* transaction and no block, and nothing is written.
C18_InvalidPayload ==
    [][(ret'.op = "/send" /\ ret'.data \in InvalidPayloads) =>
           /\ ret'.returns
           /\ ret'.status = 400
           /\ cache_file' = cache_file
           /\ requests' = requests
           /\ difficulty' = persisted.difficulty
           /\ lists'[unconfirmed_transactions']
                  = persisted.lists[persisted.unconfirmed_transactions]
           /\ chain' = persisted.chain
           /\ lists' = persisted.lists]_vars

\* A payload of five keys answered 400 while the cache file holds a
\* snapshot with two transactions pending.
C18_Witness ==
    /\ ret.op = "/send"
    /\ ret.data \in InvalidPayloads
    /\ Cardinality(DOMAIN ret.data.v) = 5
    /\ ret.status = 400
    /\ requests = 2
    /\ Len(cache_file.documents) = 1
    /\ Len(pending) = 2
-----------------------------------------------------------------------------
(* Block(...): the constructor called with arguments of any type. *)

\* A list object of the heap as an argument.
List(id) == [t |-> "list", v |-> id]

\* The timestamp argument left out of the call.
Omitted == [t |-> "omitted", v |-> 0]

\* The type checks of Block.__init__: whether it raises TypeError.
Block_raises(index, transactions, previous_hash, timestamp, nonce) ==
    \/ ~isinstance(index, {"int"})
    \/ ~isinstance(transactions, {"list"})
    \/ ~isinstance(previous_hash, {"str"})
    \/ ~isinstance(timestamp, {"int", "float"})
    \/ ~isinstance(nonce, {"int"})

\* The arguments callers construct a Block with; an int may be negative.
BlockIndexes == {Int(0 - 1), Int(1), Str(<<0>>)}
BlockTransactions == {List(3), Dict(<<>>)}
BlockPreviousHashes == {Str(Zeros(4)), Int(0)}
BlockTimestamps == {Omitted, Float(1), Int(1), Str(<<1>>)}
BlockNonces == {Int(0 - 1), Int(0), Str(<<0>>)}

\* block = Block(index, transactions, previous_hash[, timestamp], nonce):
\* a timestamp left out is the default of the parameter.  TypeError from
\* the checks; otherwise the caller holds the new object.
Block_init(index, transactions, previous_hash, timestamp, nonce) ==
    /\ pc = "idle"
    /\ LET given == IF timestamp = Omitted THEN Block_default_timestamp
                    ELSE timestamp
       IN  IF Block_raises(index, transactions, previous_hash, given, nonce)
           THEN /\ ret' = [op |-> "Block", returns |-> FALSE,
                           raises |-> "TypeError",
                           args |-> <<index, transactions, previous_hash,
                                      timestamp, nonce>>]
                /\ UNCHANGED caller_block
           ELSE /\ caller_block' = <<Block(index.v, transactions.v,
                                           previous_hash.v, given, nonce.v)>>
                /\ ret' = [op |-> "Block", returns |-> TRUE,
                           args |-> <<index, transactions, previous_hash,
                                      timestamp, nonce>>,
                           clock |-> clock]
    /\ UNCHANGED <<difficulty, unconfirmed_transactions, chain, lists, pc>>
    /\ UNCHANGED <<cache_file, requests, clock, frame>>

NextConstruction ==
    \E index \in BlockIndexes, transactions \in BlockTransactions,
       previous_hash \in BlockPreviousHashes, timestamp \in BlockTimestamps,
       nonce \in BlockNonces :
        Block_init(index, transactions, previous_hash, timestamp, nonce)

\* A caller with a list of its own beside a new Blockchain().
InitConstruction ==
    /\ InitBlock
    /\ difficulty = DEFAULT_DIFFICULTY
    /\ caller_block[1].nonce = 0

SpecConstruction == InitConstruction /\ [][NextConstruction]_vars

\* C19: Block(...) fails with a validation error unless index is a
\* non-negative int, transactions a list, previous_hash a str, timestamp a
\* number and nonce a non-negative int: a call whose arguments are not so
\* does not return.
C19_BlockValidation ==
    (ret.op = "Block" /\ "args" \in DOMAIN ret) =>
        LET index == ret.args[1]
            transactions == ret.args[2]
            previous_hash == ret.args[3]
            timestamp == ret.args[4]
            nonce == ret.args[5]
        IN  ~ (/\ index.t = "int" /\ index.v >= 0
               /\ transactions.t = "list"
               /\ previous_hash.t = "str"
               /\ timestamp.t \in {"omitted", "int", "float"}
               /\ nonce.t = "int" /\ nonce.v >= 0)
                => (~ret.returns /\ ret.raises = "TypeError")
-----------------------------------------------------------------------------
(* Blocks made while the clock runs. *)

\* The clock values of a behaviour.
MaxClock == 2

\* Time passes.
tick ==
    /\ pc = "idle"
    /\ clock < MaxClock
    /\ clock' = clock + 1
    /\ UNCHANGED <<difficulty, unconfirmed_transactions, chain, lists, ret, pc,
                   caller_block, cache_file, requests, frame>>

NextClock ==
    \/ \E s \in SenderIds, r \in ReceiverIds, t \in TransactionTimestamps, a \in Amounts :
           add_new_transaction(s, r, t, a)
    \/ mine
    \/ Block_init(Int(1), List(3), Str(Zeros(4)), Omitted, Int(0))
    \/ tick

SpecClock == InitConstruction /\ [][NextClock]_vars

\* C20: a Block constructed without a timestamp takes the time of its own
\* construction: the block a mine() call appends, and the block a caller
\* constructs with the timestamp left out, carry the clock value of that step.
C20_TimestampAtCreation ==
    [][/\ (ret'.op = "mine" /\ ret'.returns /\ ret'.ret /\ chain' # chain)
              => last_block(chain').timestamp = Float(clock)
       /\ (ret'.op = "Block" /\ ret'.returns /\ "args" \in DOMAIN ret'
             /\ caller_block' # caller_block)
              => caller_block'[1].timestamp = Float(clock)]_vars
-----------------------------------------------------------------------------
(* Blockchain(difficulty): the constructor called with an argument of any
   type, between the calls of a single writer. *)

\* Checks that let a difficulty of 0 through.
Blockchain_raises_negative(d) ==
    IF ~isinstance(d, {"int"}) THEN "TypeError"
    ELSE IF d.v < 0 THEN "ValueError"
    ELSE "none"

\* The checks of Blockchain.__init__: the error raised, or "none".
Blockchain_raises(d) ==
    IF ~isinstance(d, {"int"}) THEN "TypeError"
    ELSE IF d.v <= 0 THEN "ValueError"
    ELSE "none"

\* The arguments Blockchain is constructed with.
Difficulties ==
    {Int(d) : d \in 1..MaxDifficulty}
        \cup {Int(0), Int(0 - 1), Float(1), Str(<<1>>)}

\* blockchain = Blockchain(difficulty): TypeError or ValueError from the
\* checks, and the caller keeps the ledger it had; otherwise the caller goes
\* on with the new object: the pending list created first, then the genesis
\* block with a list of its own.
Blockchain_init(d) ==
    /\ pc = "idle"
    /\ IF Blockchain_raises(d) # "none"
       THEN /\ ret' = [op |-> "Blockchain", returns |-> FALSE,
                       raises |-> Blockchain_raises(d), args |-> <<d>>]
            /\ UNCHANGED <<difficulty, unconfirmed_transactions, chain, lists>>
       ELSE /\ difficulty' = d.v
            /\ lists' = << <<>>, <<>> >>
            /\ unconfirmed_transactions' = 1
            /\ chain' = <<genesis_block(2)>>
            /\ ret' = [op |-> "Blockchain", returns |-> TRUE, args |-> <<d>>]
    /\ UNCHANGED <<pc, caller_block, cache_file, requests, clock, frame>>

NextLedger ==
    \/ \E s \in SenderIds, r \in ReceiverIds, t \in TransactionTimestamps, a \in Amounts :
           add_new_transaction(s, r, t, a)
    \/ mine
    \/ \E d \in Difficulties : Blockchain_init(d)

SpecLedger == Init /\ [][NextLedger]_vars

\* C21: Blockchain(difficulty) fails with a validation error when difficulty
\* is not an int or is 0 or less; otherwise the new ledger has the difficulty
\* given, nothing pending and a chain of the genesis block alone.
C21_LedgerConstruction ==
    [][(ret'.op = "Blockchain" /\ "args" \in DOMAIN ret') =>
           LET d == ret'.args[1]
           IN  IF d.t # "int" \/ d.v <= 0
               THEN /\ ~ret'.returns
                    /\ ret'.raises \in {"TypeError", "ValueError"}
                    /\ UNCHANGED <<difficulty, unconfirmed_transactions, chain, lists>>
               ELSE /\ ret'.returns
                    /\ difficulty' = d.v
                    /\ lists'[unconfirmed_transactions'] = <<>>
                    /\ Len(chain') = 1
                    /\ chain'[1].index = 0
                    /\ chain'[1].previous_hash = Zeros(4)
                    /\ lists'[chain'[1].transactions] = <<>>]_vars

\* Blockchain(0) has raised ValueError while the ledger held a mined block.
C21_Witness ==
    /\ ret.op = "Blockchain"
    /\ "args" \in DOMAIN ret
    /\ ret.args[1] = Int(0)
    /\ ret.raises = "ValueError"
    /\ Len(chain) = 2
-----------------------------------------------------------------------------
(* Transaction(...): the constructor called with arguments of any type. *)

\* The arguments a Transaction is constructed with: ids that may be empty,
\* amounts that may be zero or negative, values of the wrong type.
TransactionIds == {Str(<<10>>), Str(<<>>), Int(1)}
TransactionTimes == {Float(0), Int(0), Str(<<0>>)}
TransactionAmounts == {Int(1), Int(0), Int(0 - 1), Float(0 - 1), Str(<<1>>)}

\* transaction = Transaction(sender_id, receiver_id, timestamp, amount),
\* and transaction.data when the constructor returned.
Transaction_init(sender_id, receiver_id, timestamp, amount) ==
    /\ pc = "idle"
    /\ IF Transaction_raises(sender_id, receiver_id, timestamp, amount)
       THEN ret' = [op |-> "Transaction", returns |-> FALSE,
                    raises |-> "TypeError",
                    args |-> <<sender_id, receiver_id, timestamp, amount>>]
       ELSE ret' = [op |-> "Transaction", returns |-> TRUE,
                    data |-> Transaction_data(sender_id, receiver_id,
                                              timestamp, amount),
                    args |-> <<sender_id, receiver_id, timestamp, amount>>]
    /\ UNCHANGED <<difficulty, unconfirmed_transactions, chain, lists, pc,
                   caller_block, cache_file, requests, clock, frame>>

NextTransaction ==
    \E s \in TransactionIds, r \in TransactionIds, t \in TransactionTimes,
       a \in TransactionAmounts :
        Transaction_init(s, r, t, a)

SpecTransaction == Init /\ [][NextTransaction]_vars

\* C22: Transaction(...) succeeds exactly when both ids are str, the
\* timestamp is a float and the amount an int or a float, whatever the
\* values; then data has the four fields with the values given.
C22_TransactionConstruction ==
    ret.op = "Transaction" =>
        /\ ret.returns <=> /\ ret.args[1].t = "str"
                           /\ ret.args[2].t = "str"
                           /\ ret.args[3].t = "float"
                           /\ ret.args[4].t \in {"int", "float"}
        /\ ret.returns =>
               /\ DOMAIN ret.data = {"sender_id", "receiver_id", "timestamp", "amount"}
               /\ ret.data.sender_id = ret.args[1]
               /\ ret.data.receiver_id = ret.args[2]
               /\ ret.data.timestamp = ret.args[3]
               /\ ret.data.amount = ret.args[4]
        /\ ~ret.returns => ret.raises = "TypeError"

\* A Transaction with empty ids and a negative amount has been constructed.
C22_Witness ==
    /\ ret.op = "Transaction"
    /\ ret.returns
    /\ ret.args[1] = Str(<<>>)
    /\ ret.args[2] = Str(<<>>)
    /\ ret.args[4] = Int(0 - 1)
    /\ ret.data.amount = Int(0 - 1)
-----------------------------------------------------------------------------
(* block.compute_hash() called by the holder of a block, between
   assignments to its nonce and searches. *)

\* block.compute_hash(): the digest is returned; nothing is assigned.
compute_hash_call ==
    /\ pc = "idle"
    /\ ret' = [op |-> "compute_hash", returns |-> TRUE,
               ret |-> compute_hash(lists, caller_block[1]),
               nonce |-> caller_block[1].nonce]
    /\ UNCHANGED <<difficulty, unconfirmed_transactions, chain, lists, pc,
                   caller_block, cache_file, requests, clock, frame>>

NextHash ==
    \/ compute_hash_call
    \/ \E n \in 0..MaxNonce : set_nonce(n)
    \/ proof_of_work_call

SpecHash == InitBlock /\ [][NextHash]_vars

-----------------------------------------------------------------------------
(* mine() statement by statement, while another writer calls
   add_new_transaction and add_block on the same Blockchain object. *)

\* The list objects of a behaviour: a mine() call whose block is refused
\* still leaves a list behind.
MaxLists == 5

\* mine up to the candidate: the gate, self.last_block, Block(...).
mine_build ==
    /\ pc = "idle"
    /\ frame = <<>>
    /\ IF mine_gate(pending)
       THEN /\ ret' = [op |-> "mine", returns |-> TRUE, ret |-> FALSE]
            /\ UNCHANGED frame
       ELSE /\ chain # <<>>
            /\ Len(chain) < MaxChain
            /\ Len(lists) < MaxLists
            /\ frame' = <<[at |-> "proof_of_work",
                           new_block |-> mine_new_block(lists, chain,
                                                        unconfirmed_transactions),
                           proof |-> <<>>]>>
            /\ UNCHANGED ret
    /\ UNCHANGED <<difficulty, unconfirmed_transactions, chain, lists, pc,
                   caller_block, cache_file, requests, clock>>

\* proof = self.proof_of_work(new_block)
mine_proof_of_work ==
    /\ pc = "idle"
    /\ frame # <<>>
    /\ frame[1].at = "proof_of_work"
    /\ LET found == proof_of_work(lists, difficulty, frame[1].new_block)
       IN  IF ~found.returns
           THEN /\ pc' = "proof_of_work"
                /\ ret' = [op |-> "mine", returns |-> FALSE]
                /\ UNCHANGED frame
           ELSE /\ frame' = <<[at |-> "add_block", new_block |-> found.block,
                               proof |-> found.computed_hash]>>
                /\ UNCHANGED <<pc, ret>>
    /\ UNCHANGED <<difficulty, unconfirmed_transactions, chain, lists,
                   caller_block, cache_file, requests, clock>>

\* A mine that binds a new list only when add_block returned True.
mine_commit_rebind_if_added(heap, unconfirmed_list, added) ==
    IF added THEN mine_rebind(heap, unconfirmed_list)
    ELSE [lists |-> heap, unconfirmed_transactions |-> unconfirmed_list]

\* What follows self.add_block(new_block, proof) in mine: the assignment
\* self.unconfirmed_transactions = [], whatever add_block returned.
mine_commit_rebind(heap, unconfirmed_list, added) ==
    mine_rebind(heap, unconfirmed_list)

\* self.add_block(new_block, proof); self.unconfirmed_transactions = [];
\* return True.  added records what add_block returned, which mine drops.
mine_commit ==
    /\ pc = "idle"
    /\ frame # <<>>
    /\ frame[1].at = "add_block"
    /\ Len(chain) < MaxChain
    /\ LET added == add_block_call(lists, chain, difficulty,
                                   frame[1].new_block, frame[1].proof)
       IN  /\ chain' = added.chain
           /\ lists' = mine_commit_rebind(lists, unconfirmed_transactions,
                                           added.ret).lists
           /\ unconfirmed_transactions' =
                  mine_commit_rebind(lists, unconfirmed_transactions,
                                     added.ret).unconfirmed_transactions
           /\ ret' = [op |-> "mine", returns |-> TRUE, ret |-> TRUE,
                      added |-> added.ret, new_block |-> frame[1].new_block]
    /\ frame' = <<>>
    /\ UNCHANGED <<difficulty, pc, caller_block, cache_file, requests, clock>>

NextWriters ==
    \/ \E s \in SenderIds, r \in ReceiverIds, t \in TransactionTimestamps, a \in Amounts :
           add_new_transaction(s, r, t, a)
    \/ \E tx \in CallerTransactions, t \in CallerTimestamps :
           add_block(last_block(chain).index + 1, tx,
                     compute_hash(lists, last_block(chain)), t, 0, TRUE)
    \/ mine_build
    \/ mine_proof_of_work
    \/ mine_commit

SpecWriters == Init /\ [][NextWriters]_vars

\* C24: in every execution of mine(), also when another writer changes
\* chain or pending between the candidate and the commit attempt, pending
\* is cleared exactly when add_block appended the candidate.
C24_ClearedIffCommitted ==
    [][(frame # <<>> /\ frame' = <<>> /\ ret'.op = "mine") =>
           (lists'[unconfirmed_transactions'] = <<>> /\ pending # <<>>)
               <=> chain' = Append(chain, ret'.new_block)]_vars

-----------------------------------------------------------------------------
(* proof_of_work(block) pass by pass. *)

\* A search that moves the nonce before it computes the first hash.
proof_of_work_enter_increment(heap, block) ==
    LET next == [block EXCEPT !.nonce = @ + 1]
    IN  [returns |-> FALSE, block |-> next, computed_hash |-> compute_hash(heap, next)]

\* computed_hash = block.compute_hash(), before the loop.
proof_of_work_enter(heap, block) ==
    [returns |-> FALSE, block |-> block, computed_hash |-> compute_hash(heap, block)]

\* The digest of the model repeats when the nonce grows by Modulus: a search
\* that has reached this nonce without a hash that has the zeros finds none.
LastNonce == MaxNonce + Modulus

\* The call is in the loop.
searching == pc = "proof_of_work" /\ frame # <<>>

\* proof_of_work(block) up to the loop.  The record of the call keeps the
\* nonce the block came with.
search_begin ==
    /\ pc = "idle"
    /\ frame = <<>>
    /\ LET search == proof_of_work_enter(lists, caller_block[1])
       IN  /\ caller_block' = <<search.block>>
           /\ frame' = <<[at |-> "while", computed_hash |-> search.computed_hash]>>
    /\ pc' = "proof_of_work"
    /\ ret' = [op |-> "proof_of_work", returns |-> FALSE,
               nonce |-> caller_block[1].nonce]
    /\ UNCHANGED <<difficulty, unconfirmed_transactions, chain, lists,
                   cache_file, requests, clock>>

\* One pass of the loop: the test, and either the return of computed_hash
\* or the body.
search_pass ==
    /\ searching
    /\ LET search == proof_of_work_pass(lists, difficulty,
                         [returns |-> FALSE, block |-> caller_block[1],
                          computed_hash |-> frame[1].computed_hash])
       IN  IF search.returns
           THEN /\ ret' = [op |-> "proof_of_work", returns |-> TRUE,
                           ret |-> search.computed_hash, nonce |-> ret.nonce]
                /\ pc' = "idle"
                /\ frame' = <<>>
                /\ UNCHANGED caller_block
           ELSE /\ caller_block[1].nonce < LastNonce
                /\ caller_block' = <<search.block>>
                /\ frame' = <<[at |-> "while", computed_hash |-> search.computed_hash]>>
                /\ UNCHANGED <<pc, ret>>
    /\ UNCHANGED <<difficulty, unconfirmed_transactions, chain, lists,
                   cache_file, requests, clock>>

NextSearch ==
    \/ search_begin
    \/ search_pass
    \/ \E n \in 0..MaxNonce : set_nonce(n)

SpecSearch == InitBlock /\ [][NextSearch]_vars

\* The scheduler runs the thread that is in the loop.
SpecSearchFair == SpecSearch /\ WF_vars(search_pass)

\* Whether the block has the zeros under the nonce n.
has_zeros(n) ==
    startswith(compute_hash(lists, [caller_block[1] EXCEPT !.nonce = n]),
               Zeros(difficulty))

\* C26: proof_of_work moves the nonce up by one at a time from the nonce
\* the block came with and changes nothing else of the block; it returns
\* with the smallest nonce, from that one on, under which the hash has the
\* zeros, and with that hash.
C26_MonotonicSearch ==
    [][(searching \/ searching') =>
           /\ caller_block'[1].nonce \in
                  {caller_block[1].nonce, caller_block[1].nonce + 1}
           /\ caller_block'[1] = [caller_block[1] EXCEPT
                                     !.nonce = caller_block'[1].nonce]
           /\ UNCHANGED <<lists, chain, difficulty>>
           /\ (ret'.op = "proof_of_work" /\ ret'.returns) =>
                  /\ caller_block'[1].nonce >= ret'.nonce
                  /\ has_zeros(caller_block'[1].nonce)
                  /\ \A n \in ret'.nonce..(caller_block'[1].nonce - 1) :
                         ~has_zeros(n)
                  /\ ret'.ret = compute_hash(lists', caller_block'[1])]_vars

\* A search has returned after it moved the nonce twice or more.
C26_Witness ==
    /\ ret.op = "proof_of_work"
    /\ ret.returns
    /\ caller_block[1].nonce >= ret.nonce + 2
    /\ pc = "idle"
    /\ frame = <<>>
some_nonce_has_zeros == \E n \in caller_block[1].nonce..LastNonce : has_zeros(n)

\* C28: proof_of_work has no exit other than success.  A search for which
\* some nonce from the current one on gives a hash with the zeros returns
\* in the end; a search for which none does never returns; and whatever is
\* returned has the zeros.
C28_NoExitButSuccess ==
    /\ (searching /\ some_nonce_has_zeros)
           ~> (ret.op = "proof_of_work" /\ ret.returns /\ pc = "idle")
    /\ [](searching /\ ~some_nonce_has_zeros => [](searching /\ ~ret.returns))
    /\ []((ret.op = "proof_of_work" /\ ret.returns) =>
             startswith(ret.ret, Zeros(difficulty)))

\* A search is in the loop, past its starting nonce, with no nonce that
\* gives the zeros.
C28_Witness ==
    /\ searching
    /\ ~some_nonce_has_zeros
    /\ caller_block[1].nonce > ret.nonce
-----------------------------------------------------------------------------
(* The block of mine() with a single writer, checked under Spec. *)

\* C29: the candidate of mine() has the index of the last block plus one
\* and the hash of the last block as previous_hash, and with a single
\* writer add_block inside mine() accepts it: when mine() returns True the
\* chain has grown by that block, which holds the list that was pending.
C29_MineAppends ==
    [][(ret'.op = "mine" /\ ret'.returns /\ ret'.ret) =>
           /\ Len(chain') = Len(chain) + 1
           /\ SubSeq(chain', 1, Len(chain)) = chain
           /\ last_block(chain').index = last_block(chain).index + 1
           /\ last_block(chain').previous_hash
                  = compute_hash(lists, last_block(chain))
           /\ last_block(chain').transactions = unconfirmed_transactions
           /\ is_valid_proof(lists', difficulty, last_block(chain'),
                             compute_hash(lists', last_block(chain')))]_vars

\* mine() has returned True for the second time: the chain has three
\* blocks, each linked to the one before.
C29_Witness ==
    /\ ret.op = "mine"
    /\ ret.returns
    /\ ret.ret
    /\ Len(chain) = 3
    /\ chain[3].index = 2
    /\ chain[3].previous_hash = compute_hash(lists, chain[2])
    /\ Len(lists[chain[3].transactions]) >= MINIMUM_NUMBER_OF_TRANSACTIONS_PER_BLOCK
-----------------------------------------------------------------------------
(* add_block called with blocks of any index. *)

\* The indexes a caller gives its block: that of the genesis block, the
\* next position, the one after.
CallerIndexes == {0, last_block(chain).index + 1, last_block(chain).index + 2}

NextIndexes ==
    \/ \E s \in SenderIds, r \in ReceiverIds, t \in TransactionTimestamps, a \in Amounts :
           add_new_transaction(s, r, t, a)
    \/ mine
    \/ \E index \in CallerIndexes, tx \in CallerTransactions,
          p \in CallerPreviousHashes, t \in CallerTimestamps :
           add_block(index, tx, p, t, 0, TRUE)

SpecIndexes == Init /\ [][NextIndexes]_vars

\* Whether every block of ch has its position as index, from 0.
positional(ch) == \A i \in 1..Len(ch) : ch[i].index = i - 1

\* C30 as stated: in every state reached by add_new_transaction, mine and
\* add_block with blocks of any kind, chain[i].index is i at every position.
C30_PositionalIndexes == positional(chain)

\* C30: the genesis block has index 0 and blocks once appended stay; mine()
\* appends a block with the index of the last block plus one; add_block
\* appends the block with the index its caller gave, which it does not
\* test.  So positional indexes are kept by mine(), and by add_block
\* exactly when the caller's index is the next position.
C30_IndexesFollowCallers ==
    [][/\ chain'[1].index = 0
       /\ SubSeq(chain', 1, Len(chain)) = chain
       /\ Len(chain') = Len(chain) + 1 =>
              /\ ret'.op = "mine" =>
                     last_block(chain').index = last_block(chain).index + 1
              /\ ret'.op = "add_block" =>
                     last_block(chain').index = ret'.block.index
              /\ positional(chain) =>
                     (positional(chain') <=>
                         (ret'.op = "mine" \/ ret'.block.index = Len(chain)))]_vars

\* add_block has appended a block with index 0 after the genesis block.
C30_Witness ==
    /\ ret.op = "add_block"
    /\ ret.ret
    /\ Len(chain) = 2
    /\ chain[2].index = 0
    /\ chain[2].previous_hash = compute_hash(lists, chain[1])
-----------------------------------------------------------------------------
(* mine() statement by statement down to its last assignment, while another
   thread calls add_new_transaction and a third takes snapshots. *)

\* An add_block and an assignment that happen as one statement.
mine_add_block_drained(heap, ch, d, unconfirmed_list, block, proof) ==
    [chain |-> add_block_call(heap, ch, d, block, proof).chain,
     ret |-> add_block_call(heap, ch, d, block, proof).ret,
     lists |-> mine_rebind(heap, unconfirmed_list).lists,
     unconfirmed_transactions |->
         mine_rebind(heap, unconfirmed_list).unconfirmed_transactions]

\* self.add_block(new_block, proof) in mine: the chain after the call and
\* what it returned; the pending list is not touched.
mine_add_block_only(heap, ch, d, unconfirmed_list, block, proof) ==
    [chain |-> add_block_call(heap, ch, d, block, proof).chain,
     ret |-> add_block_call(heap, ch, d, block, proof).ret,
     lists |-> heap,
     unconfirmed_transactions |-> unconfirmed_list]

\* self.add_block(new_block, proof), the statement alone.
mine_add_block ==
    /\ pc = "idle"
    /\ frame # <<>>
    /\ frame[1].at = "add_block"
    /\ Len(chain) < MaxChain
    /\ LET after == mine_add_block_only(lists, chain, difficulty,
                                        unconfirmed_transactions,
                                        frame[1].new_block, frame[1].proof)
       IN  /\ chain' = after.chain
           /\ lists' = after.lists
           /\ unconfirmed_transactions' = after.unconfirmed_transactions
           /\ frame' = <<[at |-> "rebind", new_block |-> frame[1].new_block,
                          proof |-> frame[1].proof, added |-> after.ret]>>
    /\ UNCHANGED <<difficulty, ret, pc, caller_block, cache_file, requests, clock>>

\* self.unconfirmed_transactions = []; return True.
mine_rebind_return ==
    /\ pc = "idle"
    /\ frame # <<>>
    /\ frame[1].at = "rebind"
    /\ lists' = mine_rebind(lists, unconfirmed_transactions).lists
    /\ unconfirmed_transactions' =
           mine_rebind(lists, unconfirmed_transactions).unconfirmed_transactions
    /\ ret' = [op |-> "mine", returns |-> TRUE, ret |-> TRUE,
               added |-> frame[1].added, new_block |-> frame[1].new_block]
    /\ frame' = <<>>
    /\ UNCHANGED <<difficulty, chain, pc, caller_block, cache_file, requests, clock>>

\* json.dumps(blockchain.__dict__()) by a thread that shares the object:
\* the snapshot of the ledger as it is; at says where mine() is.
serialize ==
    /\ pc = "idle"
    /\ ret' = [op |-> "json.dumps", returns |-> TRUE, ret |-> snapshot,
               at |-> IF frame = <<>> THEN "idle" ELSE frame[1].at]
    /\ UNCHANGED <<difficulty, unconfirmed_transactions, chain, lists, pc,
                   caller_block, cache_file, requests, clock, frame>>

NextSteps ==
    \/ \E s \in SenderIds, r \in ReceiverIds, t \in TransactionTimestamps, a \in Amounts :
           add_new_transaction(s, r, t, a)
    \/ mine_build
    \/ mine_proof_of_work
    \/ mine_add_block
    \/ mine_rebind_return
    \/ serialize

SpecSteps == Init /\ [][NextSteps]_vars

\* C31: while mine() is in progress the candidate keeps the transactions
\* that were pending when it was built, and its hash, whatever
\* add_new_transaction does meanwhile; and the contents of a block of the
\* chain never change.
C31_CandidateIsSnapshot ==
    [][/\ (frame # <<>> /\ frame' # <<>>) =>
              /\ lists'[frame'[1].new_block.transactions]
                     = lists[frame[1].new_block.transactions]
              /\ frame'[1].new_block.nonce = frame[1].new_block.nonce =>
                     compute_hash(lists', frame'[1].new_block)
                         = compute_hash(lists, frame[1].new_block)
       /\ \A i \in 1..Len(chain) :
              Block_dict(lists', chain'[i]) = Block_dict(lists, chain[i])]_vars
\* C32: mine() is not atomic for a thread that serializes the ledger.  A
\* snapshot taken after add_block has appended the candidate and before the
\* assignment shows the transactions twice, in the last block and pending:
\* the block is committed and pending is not drained.  (At no point of a
\* mine() in progress does a snapshot show pending drained.)
C32_TornSnapshot ==
    [][(ret'.op = "json.dumps" /\ ret' # ret /\ frame # <<>>) =>
           LET document == ret'.ret
               records == document.chain
           IN  /\ Len(document.unconfirmed_transactions)
                      >= MINIMUM_NUMBER_OF_TRANSACTIONS_PER_BLOCK
               /\ (frame[1].at = "rebind" /\ frame[1].added) =>
                      /\ records[Len(records)].transactions
                             = document.unconfirmed_transactions
                      /\ records[Len(records)].index
                             = json_number(Int(frame[1].new_block.index))
               /\ frame[1].at # "rebind" =>
                      \A i \in 1..Len(records) :
                          records[i].transactions = <<>>
                              \/ records[i].transactions
                                     # document.unconfirmed_transactions]_vars

\* A snapshot taken between add_block and the assignment: its last block
\* record and its pending list are the same three transactions.
C32_Witness ==
    /\ ret.op = "json.dumps"
    /\ ret.at = "rebind"
    /\ frame # <<>>
    /\ frame[1].at = "rebind"
    /\ frame[1].added
    /\ ret.ret = snapshot
    /\ Len(ret.ret.chain) = 2
    /\ Len(ret.ret.unconfirmed_transactions) = 3
    /\ ret.ret.chain[2].transactions = ret.ret.unconfirmed_transactions
-----------------------------------------------------------------------------
(* application.py: /send handlers that overlap.  Nothing in the handler
   or around it serializes two requests: each handler loads the ledger
   from the cache file into an object of its own, adds and mines on that
   object, and later writes the snapshot of that object over the file. *)

MaxHandlers == 2
MaxSends == 6

\* The handlers that have loaded the ledger so far: the answered ones and
\* the ones between their load and their write.
handlers_begun == requests + Len(frame)

\* The valid payload of the next handler; its timestamp tells it from the
\* payload of every other handler.
NextPayload ==
    Dict([sender_id |-> Str(<<10>>), receiver_id |-> Str(<<11>>),
          timestamp |-> Float(handlers_begun), amount |-> Int(1)])

\* The ledger object of a handler as the ledger variables.
handler_ledger(blockchain) ==
    /\ difficulty' = blockchain.difficulty
    /\ lists' = blockchain.lists
    /\ unconfirmed_transactions' = blockchain.unconfirmed_transactions
    /\ chain' = blockchain.chain

\* A handler from get_current_blockchain to the return of mine(), with a
\* valid payload: the ledger is loaded from the file as it is now, the
\* transaction is added to it and mine() is called on it.  The file is not
\* touched.  A search that has no end leaves the handler in mine().
send_load_mine(data) ==
    /\ pc = "idle"
    /\ Len(frame) < MaxHandlers
    /\ handlers_begun < MaxSends
    /\ check_data_is_valid_transaction(data)
    /\ LET blockchain == get_current_blockchain_result(cache_file)
           transaction_details ==
               Transaction_data(data.v["sender_id"], data.v["receiver_id"],
                                data.v["timestamp"], data.v["amount"])
           added == [blockchain EXCEPT
                        !.lists[blockchain.unconfirmed_transactions] =
                            list_append(@, transaction_details)]
           mined == mine_call(added)
       IN  /\ Len(mined.blockchain.chain) <= MaxChain
           /\ handler_ledger(mined.blockchain)
           /\ IF ~mined.returns
              THEN /\ pc' = "proof_of_work"
                   /\ ret' = [op |-> "/send", returns |-> FALSE, data |-> data]
                   /\ UNCHANGED frame
              ELSE /\ frame' = Append(frame,
                                      [at |-> "write", data |-> data,
                                       blockchain |-> mined.blockchain,
                                       transaction_details |-> transaction_details])
                   /\ ret' = [op |-> "mine", returns |-> TRUE, ret |-> TRUE,
                              data |-> data]
                   /\ UNCHANGED pc
    /\ UNCHANGED <<caller_block, cache_file, requests, clock>>

\* Handler i from the open(..., "w") to its return: the snapshot of its own
\* ledger object replaces the content of the file, and the transaction is
\* the answer, 200.
send_write(i) ==
    /\ pc = "idle"
    /\ i \in 1..Len(frame)
    /\ frame[i].at = "write"
    /\ LET blockchain == frame[i].blockchain
       IN  /\ cache_file' =
                  File(TRUE, <<json_dumps_blockchain(
                                   Blockchain_dict(
                                       blockchain.lists, blockchain.difficulty,
                                       blockchain.unconfirmed_transactions,
                                       blockchain.chain))>>)
           /\ handler_ledger(blockchain)
    /\ requests' = requests + 1
    /\ ret' = [op |-> "/send", returns |-> TRUE, status |-> 200,
               body |-> json_dumps_transaction(frame[i].transaction_details),
               data |-> frame[i].data]
    /\ frame' = SubSeq(frame, 1, i - 1) \o SubSeq(frame, i + 1, Len(frame))
    /\ UNCHANGED <<pc, caller_block, clock>>

NextHandlers ==
    \/ send_load_mine(NextPayload)
    \/ \E i \in 1..MaxHandlers : send_write(i)

SpecHandlers == InitApplication /\ [][NextHandlers]_vars

\* The number of transactions of list whose timestamp is the float k.
RECURSIVE count_in_list(_, _)
count_in_list(list, k) ==
    IF list = <<>> THEN 0
    ELSE (IF list[1].timestamp = Float(k) THEN 1 ELSE 0)
             + count_in_list(Tail(list), k)

\* The number of times the transaction of handler k is in the ledger:
\* pending or in a block.
RECURSIVE count_in_lists(_, _)
count_in_lists(heap, k) ==
    IF heap = <<>> THEN 0
    ELSE count_in_list(heap[1], k) + count_in_lists(Tail(heap), k)

\* The handlers that were answered 200: the ones begun and not in flight.
acknowledged ==
    {k \in 0..(handlers_begun - 1) :
        \A i \in 1..Len(frame) : frame[i].data.v["timestamp"] # Float(k)}

\* C33: with /send handlers that overlap and nothing that serializes them,
\* once every handler has returned, each transaction that was answered 200
\* is exactly once in the persisted ledger, pending or in a block.
C33_NoAcknowledgedLost ==
    frame = <<>> =>
        \A k \in acknowledged : count_in_lists(persisted.lists, k) = 1
-----------------------------------------------------------------------------
(* Two runs of the same calls side by side: one keeps a Blockchain object
   in memory, the other (as the /send handler does) loads the ledger from
   the cache file before each call and writes its snapshot after it.  The
   ledger variables are the object of the first run, cache_file is the
   file of the second. *)

\* file.write(json.dumps(blockchain.__dict__(), indent=4) + "\n") on a file
\* opened with "w".
file_write(blockchain) ==
    File(TRUE, <<json_dumps_blockchain(
                     Blockchain_dict(blockchain.lists, blockchain.difficulty,
                                     blockchain.unconfirmed_transactions,
                                     blockchain.chain))>>)

\* The arguments of the valid calls: the caller sends an int amount and a
\* float amount in turn.
ReloadAmounts == {IF accepted % 2 = 0 THEN Int(1) ELSE Float(1)}
ReloadArguments ==
    {<<s, r, t, a>> : s \in SenderIds, r \in ReceiverIds,
                      t \in TransactionTimestamps, a \in ReloadAmounts}

\* add_new_transaction with valid arguments in both runs.
reload_add_new_transaction(sender_id, receiver_id, timestamp, amount) ==
    /\ pc = "idle"
    /\ Len(pending) < MaxPending
    /\ ~add_new_transaction_raises(sender_id, receiver_id, timestamp, amount)
    /\ ~Transaction_raises(sender_id, receiver_id, timestamp, amount)
    /\ LET transaction_details ==
               Transaction_data(sender_id, receiver_id, timestamp, amount)
           blockchain == get_current_blockchain_result(cache_file)
       IN  /\ lists' = [lists EXCEPT
                           ![unconfirmed_transactions] =
                               list_append(@, transaction_details)]
           /\ cache_file' =
                  file_write([blockchain EXCEPT
                                 !.lists[blockchain.unconfirmed_transactions] =
                                     list_append(@, transaction_details)])
           /\ ret' = [op |-> "add_new_transaction", returns |-> TRUE,
                      transaction |-> transaction_details,
                      args |-> <<sender_id, receiver_id, timestamp, amount>>]
    /\ UNCHANGED <<difficulty, unconfirmed_transactions, chain, pc, caller_block>>
    /\ UNCHANGED <<requests, clock, frame>>

\* mine() in both runs.  A search without end in either run leaves that
\* run in proof_of_work, its ledger or its file as it was.
reload_mine ==
    /\ pc = "idle"
    /\ chain # <<>>
    /\ LET new_block == mine_new_block(lists, chain, unconfirmed_transactions)
           found == proof_of_work(lists, difficulty, new_block)
           added == add_block_call(lists, chain, difficulty,
                                   found.block, found.computed_hash)
           mined == mine_call(get_current_blockchain_result(cache_file))
       IN  /\ IF mine_gate(pending)
              THEN /\ ret' = [op |-> "mine", returns |-> TRUE, ret |-> FALSE]
                   /\ UNCHANGED <<unconfirmed_transactions, chain, lists>>
              ELSE IF ~found.returns
              THEN /\ ret' = [op |-> "mine", returns |-> FALSE]
                   /\ UNCHANGED <<unconfirmed_transactions, chain, lists>>
              ELSE /\ Len(chain) < MaxChain
                   /\ chain' = added.chain
                   /\ lists' = mine_rebind(lists, unconfirmed_transactions).lists
                   /\ unconfirmed_transactions' =
                          mine_rebind(lists, unconfirmed_transactions)
                              .unconfirmed_transactions
                   /\ ret' = [op |-> "mine", returns |-> TRUE, ret |-> TRUE]
           /\ cache_file' = IF mined.returns /\ ~mined.raises
                            THEN file_write(mined.blockchain)
                            ELSE cache_file
           /\ pc' = IF (~mine_gate(pending) /\ ~found.returns) \/ ~mined.returns
                    THEN "proof_of_work" ELSE "idle"
    /\ UNCHANGED <<difficulty, caller_block, requests, clock, frame>>

\* Both runs start from the same new Blockchain(d): the file holds its
\* snapshot.
InitReload ==
    /\ \E d \in 1..MaxDifficulty : Blockchain(d)
    /\ caller_block = <<>>
    /\ cache_file = File(TRUE, <<snapshot>>)
    /\ requests = 0
    /\ clock = 0
    /\ frame = <<>>

NextReload ==
    \/ \E args \in ReloadArguments :
           reload_add_new_transaction(args[1], args[2], args[3], args[4])
    \/ reload_mine

SpecReload == InitReload /\ [][NextReload]_vars

\* C34: after every sequence of valid add_new_transaction and mine() calls
\* the run that writes and reloads the ledger between the calls has the
\* ledger of the run that keeps it in memory: the same difficulty, the same
\* pending transactions, the same blocks with the same compute_hash(), and
\* every block of the reloaded chain holds the hash of the block before it.
C34_ReloadTransparent ==
    /\ persisted.difficulty = difficulty
    /\ persisted.lists[persisted.unconfirmed_transactions] = pending
    /\ Len(persisted.chain) = Len(chain)
    /\ \A i \in 1..Len(chain) :
           /\ Block_dict(persisted.lists, persisted.chain[i])
                  = Block_dict(lists, chain[i])
           /\ compute_hash(persisted.lists, persisted.chain[i])
                  = compute_hash(lists, chain[i])
    /\ \A i \in 2..Len(persisted.chain) :
           persisted.chain[i].previous_hash
               = compute_hash(persisted.lists, persisted.chain[i - 1])

\* Two blocks mined and a transaction pending in both runs, with int and
\* float amounts in a block.
C34_Witness ==
    /\ Len(chain) = 3
    /\ Len(persisted.chain) = 3
    /\ Len(cache_file.documents[1].chain) = 3
    /\ Len(pending) >= 1
    /\ Len(persisted.lists[persisted.unconfirmed_transactions]) >= 1
    /\ \E i \in 2..3 :
           /\ chain[i].nonce > 0
           /\ \E j, k \in 1..Len(lists[chain[i].transactions]) :
                  /\ lists[chain[i].transactions][j].amount = Int(1)
                  /\ lists[chain[i].transactions][k].amount = Float(1)
-----------------------------------------------------------------------------
(* The hashes of a ledger written and read back, checked under
   SpecSnapshot, where add_block takes blocks with a float or an int
   timestamp. *)

\* C35: for a ledger reached through add_new_transaction, mine and
\* add_block, blocks with an int timestamp included, every block of the
\* ledger parsed from its snapshot has the compute_hash() it had before, and
\* so every block of the parsed ledger that held the hash of the block
\* before it still holds it.
C35_RoundTripHashes ==
    [][(ret'.op = "get_current_blockchain" /\ ret'.file = File(TRUE, <<snapshot>>)) =>
          /\ Len(chain') = Len(chain)
          /\ \A i \in 1..Len(chain) :
                 compute_hash(lists', chain'[i]) = compute_hash(lists, chain[i])
          /\ \A i \in 2..Len(chain) :
                 chain[i].previous_hash = compute_hash(lists, chain[i - 1]) =>
                     chain'[i].previous_hash
                         = compute_hash(lists', chain'[i - 1])]_vars
====
